---- MODULE Spec2Model ----
(***************************************************************************)
(* cupoch geometry cores: Graph (CSR construction, mutators, wavefront     *)
(* SSSP) and OccupancyGrid (log-odds update, ray insertion).               *)
(*                                                                         *)
(* Conventions.  Sequences are 1-based here and 0-based in the source, so  *)
(* the element the code calls a[i] is a[i + 1] below; stored indices       *)
(* (edge_index_offsets_, prev_index_, voxel indices) keep the code's       *)
(* 0-based values.  Weights 1.0, 2.0 are the integers 1, 2; the colour     *)
(* Vector3f::Ones() (white) is 1.                                          *)
(*                                                                         *)
(* Out-of-bounds accesses.  In the graph mutators a read outside an         *)
(* allocation yields a value g chosen nondeterministically from Garbage by *)
(* the action that performs it, and sets ub, which stays set.  A write     *)
(* outside voxels_ lands outside the array: no cell changes, and grid_ub   *)
(* is set.  A Dijkstra run that reads outside an array is not followed     *)
(* further: it ends in pc = "undefined".                                   *)
(***************************************************************************)
EXTENDS Integers, Sequences, FiniteSets, TLC

\* ------------------------------------------------------------------ bounds
NumPoints == 3          \* |points_| of the graph
MaxLines == 4           \* appending mutators are taken while |lines_| stays <= MaxLines
MaxBatch == 2           \* longest edge list passed to AddEdges / RemoveEdges
MaxCalls == 3           \* calls made on one graph

Vertices == 0 .. (NumPoints - 1)
EdgeInputs == {e \in Vertices \X Vertices : e[1] # e[2]}
BatchEdgeInputs == {e \in EdgeInputs : e[1] = 0}
WeightInputs == {1, 2}
Garbage == {-1, 0, 7}

\* --------------------------------------------------------------- variables
VARIABLES
    lines_,                \* LineSet::lines_, rows <<src, dst>>
    edge_weights_,         \* Graph::edge_weights_
    colors_,               \* LineSet::colors_
    edge_index_offsets_,   \* Graph::edge_index_offsets_
    is_directed_,          \* Graph::is_directed_
    ub,                    \* an out-of-bounds access has happened
    call,                  \* the last call made: operation, arguments, error
    pre,                   \* the arrays of the graph before that call
    ncalls,                \* calls made so far
    node_colors_           \* Graph::node_colors_

gvars == <<lines_, edge_weights_, colors_, edge_index_offsets_, is_directed_, ub, call, pre,
           ncalls, node_colors_>>

\* Graph::DijkstraPaths / DijkstraPath: the locals of one run
VARIABLES
    pc,                    \* "idle", "loop" (at the head of the while loop), "relax"
                           \* and "commit" (inside the first and the second
                           \* for_each of an element-wise run), "done"
                           \* (DijkstraPaths returned), "returned" (DijkstraPath
                           \* returned), "undefined" (the run read out of bounds)
    want_path,             \* the run was started by DijkstraPath
    start_node_index,
    end_node_index,
    out,                   \* SSSPResultArray out: one SSSPResult per vertex
    open_flags,
    indices,
    nt,
    res_tmp,               \* one SSSPResult per edge row
    res_tmp_s,             \* one SSSPResult per vertex
    sorted_lines,          \* lines_ sorted by destination
    old_to_new_edge_table,
    path_nodes,            \* what DijkstraPath returns
    iter,                  \* iterations of the while loop run so far
    first_run,             \* end and result of an earlier targeted DijkstraPaths call
    phase                  \* element-wise runs: the elements of the running for_each
                           \* still to be processed, and the iteration as one step

svars == <<pc, want_path, start_node_index, end_node_index, out, open_flags, indices, nt,
           res_tmp, res_tmp_s, sorted_lines, old_to_new_edge_table, path_nodes, iter,
           first_run, phase>>

\* OccupancyGrid: the members, and what the last call did
VARIABLES
    voxels_,               \* the dense array: linear index -> OccupancyVoxel
    resolution_,
    voxel_size_,
    origin_,
    clamping_thres_min_,
    clamping_thres_max_,
    prob_hit_log_,
    prob_miss_log_,
    grid_ub,               \* a write went outside voxels_
    free_voxels,           \* Insert: free_voxels after ComputeFreeVoxels
    occupied_voxels,       \* Insert: occupied_voxels after ComputeOccupiedVoxels
    free_voxels_res,       \* Insert: the list passed to AddVoxels(.., false)
    gcall,                 \* the last call on the grid and its arguments
    gpre,                  \* voxels_ before the last call
    gcall2,                \* the call before the last
    gpre2,                 \* voxels_ before the call before the last
    nops

ovars == <<voxels_, resolution_, voxel_size_, origin_, clamping_thres_min_,
           clamping_thres_max_, prob_hit_log_, prob_miss_log_, grid_ub, free_voxels,
           occupied_voxels, free_voxels_res, gcall, gpre, gcall2, gpre2, nops>>

vars == <<gvars, svars, ovars>>

\* ----------------------------------------------------------------- helpers
Range(s) == {s[i] : i \in DOMAIN s}

SeqsUpTo(S, n) == UNION {[1 .. k -> S] : k \in 0 .. n}

\* operator< of Eigen vectors: lexicographic
RowLess(a, b) == a[1] < b[1] \/ (a[1] = b[1] /\ a[2] < b[2])

\* comparator of the sort in DijkstraPaths: destination only
DstLess(a, b) == a[2] < b[2]

\* reverse_index_functor
Reverse(e) == <<e[2], e[1]>>

\* thrust::sort / sort_by_key (dispatches to the stable sort): r-th smallest position
\* the comparator a thrust call is given, by name
RowGreater(a, b) == RowLess(b, a)

Less(cmp, a, b) ==
    CASE cmp = "less" -> RowLess(a, b)
      [] cmp = "greater" -> RowGreater(a, b)
      [] cmp = "dst" -> DstLess(a, b)

StableRank(keys, cmp, i) ==
    1 + Cardinality({j \in DOMAIN keys :
                        Less(cmp, keys[j], keys[i]) \/ (~Less(cmp, keys[i], keys[j]) /\ j < i)})

\* no sort at all: every row stays where it was appended
UnsortedPerm(keys, cmp) == [r \in DOMAIN keys |-> r]

\* a pass that keeps the first occurrence of every key and drops the repeats
DistinctPerm(keys, cmp) ==
    LET kept == {i \in DOMAIN keys : \A j \in DOMAIN keys : j < i => keys[j] # keys[i]}
    IN  [r \in 1 .. Cardinality(kept) |->
            CHOOSE i \in kept : Cardinality({j \in kept : j <= i}) = r]

SortPerm(keys, cmp) ==
    [r \in DOMAIN keys |-> CHOOSE i \in DOMAIN keys : StableRank(keys, cmp, i) = r]

Permute(s, perm) == [r \in DOMAIN perm |-> s[perm[r]]]

IsSorted(keys, cmp) ==
    \A i \in DOMAIN keys : \A j \in DOMAIN keys : i < j => ~Less(cmp, keys[j], keys[i])

\* vector::resize(n, fill)
Resize(s, n, fill) == [i \in 1 .. n |-> IF i <= Len(s) THEN s[i] ELSE fill]

\* thrust::remove_if over zipped ranges keeps, in order, the positions not removed
KeepPositions(s, removed) ==
    LET kept == DOMAIN s \ removed
    IN  [r \in 1 .. Cardinality(kept) |->
            CHOOSE i \in kept : Cardinality({j \in kept : j <= i}) = r]

\* thrust::reduce_by_key with equal_to: start positions of the runs of equal keys
RunStarts(keys) == {i \in DOMAIN keys : i = 1 \/ keys[i] # keys[i - 1]}

NthRunStart(keys, k) ==
    CHOOSE s \in RunStarts(keys) : Cardinality({t \in RunStarts(keys) : t <= s}) = k

RunEnd(keys, s) ==
    IF \E t \in RunStarts(keys) : t > s
    THEN (CHOOSE t \in RunStarts(keys) : t > s /\ \A u \in RunStarts(keys) : u > s => t <= u) - 1
    ELSE Len(keys)

RECURSIVE SumTo(_, _)
SumTo(s, n) == IF n = 0 THEN 0 ELSE s[n] + SumTo(s, n - 1)

\* thrust::exclusive_scan, in place
ExclusiveScan(s) == [i \in DOMAIN s |-> SumTo(s, i - 1)]

\* ------------------------------------------------------------------- Graph
HasColors(lines, colors) == Len(lines) > 0 /\ Len(colors) = Len(lines)

HasWeights(lines, weights) == Len(weights) = Len(lines)

IsConstructed == Len(edge_index_offsets_) = NumPoints + 1

\* counts[k] as the gather of ConstructGraph reads it: counts was allocated
\* (zeroed) with |lines_| elements, reduce_by_key filled the first nu, and the
\* resize to nu kept the storage; beyond |lines_| the read is out of bounds.
CountsAt(counts, nlines, k, g) ==
    IF 0 <= k /\ k < Len(counts) THEN counts[k + 1]
    ELSE IF 0 <= k /\ k < nlines THEN 0
    ELSE g

CountsReadInBounds(src_indices, nlines) ==
    \A i \in DOMAIN src_indices : 0 <= src_indices[i] /\ src_indices[i] < nlines

\* The offsets ConstructGraph leaves: resize(n + 1, 0) keeps what was there,
\* gather writes offsets[i] = counts[src_indices[i]] for the i-th distinct source,
\* exclusive_scan runs over all n + 1 entries.
GatherOffsets(lines, offsets, g) ==
    LET srcs        == [i \in DOMAIN lines |-> lines[i][1]]
        nu          == Cardinality(RunStarts(srcs))
        src_indices == [k \in 1 .. nu |-> srcs[NthRunStart(srcs, k)]]
        counts      == [k \in 1 .. nu |->
                            RunEnd(srcs, NthRunStart(srcs, k)) - NthRunStart(srcs, k) + 1]
        resized     == Resize(offsets, NumPoints + 1, 0)
    IN  [i \in 1 .. (NumPoints + 1) |->
            IF i <= nu THEN CountsAt(counts, Len(lines), src_indices[i], g) ELSE resized[i]]

BuildOffsets(lines, offsets, g) == ExclusiveScan(GatherOffsets(lines, offsets, g))

OffsetsInBounds(lines) ==
    LET srcs == [i \in DOMAIN lines |-> lines[i][1]]
        nu   == Cardinality(RunStarts(srcs))
    IN  /\ nu <= NumPoints + 1
        /\ CountsReadInBounds([k \in 1 .. nu |-> srcs[NthRunStart(srcs, k)]], Len(lines))

\* a ConstructGraph without the test for an empty edge list: the offsets are
\* resized and scanned as for any other list
EmptyGraphNotRejected(lines, weights, colors, offsets) ==
    [lines |-> lines, weights |-> weights, colors |-> colors,
     offsets |-> ExclusiveScan(Resize(offsets, NumPoints + 1, 0)), ub |-> FALSE,
     err |-> "none"]

\* the early return of ConstructGraph on an empty edge list: the error is
\* logged and nothing is written
EmptyGraphRejected(lines, weights, colors, offsets) ==
    [lines |-> lines, weights |-> weights, colors |-> colors,
     offsets |-> offsets, ub |-> FALSE, err |-> "EmptyGraph"]

\* Graph::ConstructGraph on the given arrays; the result is a record of the
\* arrays it leaves, whether an access went out of bounds, and the error logged.
ConstructGraph(lines, weights, colors, offsets, g) ==
    IF Len(lines) = 0
    THEN EmptyGraphRejected(lines, weights, colors, offsets)
    ELSE LET has_colors  == HasColors(lines, colors)
             has_weights == HasWeights(lines, weights)
             perm        == SortPerm(lines, "less")
             sorted      == Permute(lines, perm)
         IN  [lines   |-> sorted,
              weights |-> IF has_weights THEN Permute(weights, perm)
                          ELSE IF has_colors THEN weights
                          ELSE Resize(weights, Len(lines), 1),
              colors  |-> IF has_colors THEN Permute(colors, perm) ELSE colors,
              offsets |-> BuildOffsets(sorted, offsets, g),
              ub      |-> ~OffsetsInBounds(sorted),
              err     |-> "none"]

\* what the out-of-bounds read of ConstructGraph can yield on these rows
GarbageRead(lines) ==
    IF Len(lines) = 0 \/ OffsetsInBounds(Permute(lines, SortPerm(lines, "less")))
    THEN {0} ELSE Garbage

Snapshot == [lines |-> lines_, weights |-> edge_weights_, colors |-> colors_,
             offsets |-> edge_index_offsets_, node_colors |-> node_colors_]

\* assign the arrays a mutator leaves and record the call
Commit(r, op, edges, weights, err) ==
    /\ lines_' = r.lines
    /\ edge_weights_' = r.weights
    /\ colors_' = r.colors
    /\ edge_index_offsets_' = r.offsets
    /\ ub' = (ub \/ r.ub)
    /\ call' = [op |-> op, edges |-> edges, weights |-> weights, err |-> err,
                nodes |-> <<>>]
    /\ pre' = Snapshot
    /\ ncalls' = ncalls + 1
    /\ UNCHANGED <<is_directed_, node_colors_, svars, ovars>>

\* Graph::ConstructGraph called directly
ConstructGraphCall ==
    /\ ncalls < MaxCalls
    /\ \E g \in GarbageRead(lines_) :
        LET r == ConstructGraph(lines_, edge_weights_, colors_, edge_index_offsets_, g)
        IN  Commit(r, "ConstructGraph", <<>>, <<>>, r.err)

\* Graph::AddEdge(edge, weight)
AddEdge(edge, weight) ==
    /\ ncalls < MaxCalls
    /\ Len(lines_) + (IF is_directed_ THEN 1 ELSE 2) <= MaxLines
    /\ LET lines1   == IF is_directed_ THEN Append(lines_, edge)
                       ELSE lines_ \o <<edge, Reverse(edge)>>
           weights1 == IF is_directed_ THEN Append(edge_weights_, weight)
                       ELSE edge_weights_ \o <<weight, weight>>
           colors1  == IF HasColors(lines1, colors_)
                       THEN (IF is_directed_ THEN Append(colors_, 1) ELSE colors_ \o <<1, 1>>)
                       ELSE colors_
       IN  \E g \in GarbageRead(lines1) :
              LET r == ConstructGraph(lines1, weights1, colors1, edge_index_offsets_, g)
              IN  Commit(r, "AddEdge", <<edge>>, <<weight>>, r.err)

\* an AddEdges that never rejects its arguments
SizeMismatchIgnored(edges, weights) == FALSE

\* the test AddEdges makes before it touches the graph
SizeMismatch(edges, weights) == weights # <<>> /\ Len(edges) # Len(weights)

\* Graph::AddEdges(edges, weights); weights = <<>> is the default argument
AddEdges(edges, weights) ==
    /\ ncalls < MaxCalls
    /\ IF SizeMismatch(edges, weights)
       THEN Commit(Snapshot @@ [ub |-> FALSE], "AddEdges", edges, weights, "SizeMismatch")
       ELSE
       /\ Len(lines_) + (IF is_directed_ THEN 1 ELSE 2) * Len(edges) <= MaxLines
       /\ LET n_old_lines == Len(lines_)
              lines1   == IF is_directed_ THEN lines_ \o edges
                          ELSE lines_ \o edges \o [i \in DOMAIN edges |-> Reverse(edges[i])]
              weights1 == IF weights = <<>>
                          THEN LET resized == Resize(edge_weights_,
                                                     IF is_directed_ THEN Len(lines1)
                                                     ELSE 2 * Len(lines1), 0)
                               IN  [i \in DOMAIN resized |->
                                      IF i > n_old_lines THEN 1 ELSE resized[i]]
                          ELSE IF is_directed_ THEN edge_weights_ \o weights
                          ELSE edge_weights_ \o weights \o weights
              colors1  == IF HasColors(lines1, colors_)
                          THEN [i \in DOMAIN colors_ |->
                                   IF i > n_old_lines THEN 1 ELSE colors_[i]]
                          ELSE colors_
          IN  \E g \in GarbageRead(lines1) :
                 LET r == ConstructGraph(lines1, weights1, colors1, edge_index_offsets_, g)
                 IN  Commit(r, "AddEdges", edges, weights, r.err)

\* check_edge of RemoveEdge, and the match of replace_color_functor
CheckEdge(l, edge) == l = edge \/ (~is_directed_ /\ l = Reverse(edge))

\* Graph::RemoveEdge(edge)
RemoveEdge(edge) ==
    /\ ncalls < MaxCalls
    /\ LET has_colors  == HasColors(lines_, colors_)
           has_weights == HasWeights(lines_, edge_weights_)
           removed     == {i \in DOMAIN lines_ : CheckEdge(lines_[i], edge)}
           keep        == KeepPositions(lines_, removed)
           lines1      == Permute(lines_, keep)
           weights1    == IF has_weights THEN Permute(edge_weights_, keep) ELSE edge_weights_
           colors1     == IF has_colors THEN Permute(colors_, keep) ELSE colors_
       IN  \E g \in GarbageRead(lines1) :
              LET r == ConstructGraph(lines1, weights1, colors1, edge_index_offsets_, g)
              IN  Commit(r, "RemoveEdge", <<edge>>, <<>>, r.err)

\* Graph::PaintEdgeColor(edge, color)
PaintEdgeColor(edge, color) ==
    /\ ncalls < MaxCalls
    /\ LET colors0 == IF HasColors(lines_, colors_) THEN colors_
                      ELSE Resize(colors_, Len(lines_), 1)
           colors1 == [i \in DOMAIN colors0 |->
                           IF CheckEdge(lines_[i], edge) THEN color ELSE colors0[i]]
       IN  Commit([Snapshot EXCEPT !.colors = colors1] @@ [ub |-> FALSE],
                  "PaintEdgeColor", <<edge>>, <<>>, "none")

Equivalent(x, y, cmp) == ~Less(cmp, x, y) /\ ~Less(cmp, y, x)

\* thrust::set_intersection of the rows a (zipped with their 0-based positions)
\* with b on ranges sorted by cmp: of m equivalent elements of a and n of b the
\* first min(m, n) of a are copied, here their positions
SetIntersectionHits(a, b, cmp) ==
    LET hit == {i \in DOMAIN a :
                   Cardinality({j \in DOMAIN a : j <= i /\ Equivalent(a[j], a[i], cmp)})
                       <= Cardinality({j \in DOMAIN b : Equivalent(b[j], a[i], cmp)})}
    IN  [r \in 1 .. Cardinality(hit) |->
            (CHOOSE i \in hit : Cardinality({j \in hit : j <= i}) = r) - 1]

\* set_intersection requires both ranges sorted by the comparator it is given,
\* thrust::greater in PaintEdgesColor
IntersectionDefined(a, b) == IsSorted(a, "greater") /\ IsSorted(b, "greater")

\* the contents of indices after one set_intersection of PaintEdgesColor: the
\* positions of the hits overwrite the front of the array.  On ranges that are
\* not sorted by thrust::greater the output is unspecified: any positions of
\* rows, or the slots as they were.
IndicesAfter(old_indices, lines, sorted_edges) ==
    IF IntersectionDefined(lines, sorted_edges)
    THEN LET hits == SetIntersectionHits(lines, sorted_edges, "greater")
         IN  {[i \in DOMAIN old_indices |->
                  IF i <= Len(hits) THEN hits[i] ELSE old_indices[i]]}
    ELSE [DOMAIN old_indices -> {k - 1 : k \in DOMAIN lines} \cup Range(old_indices)]

\* thrust::for_each(indices.begin(), indices.end(), replace_colors_functor)
ReplaceColors(colors, idxs, color) ==
    [i \in DOMAIN colors |-> IF (i - 1) \in Range(idxs) THEN color ELSE colors[i]]

\* replace_colors_functor writes colors_[idx] without a bounds test
WritesPastColors(colors, idxs) == \E i \in DOMAIN idxs : idxs[i] >= Len(colors)

\* Graph::PaintEdgesColor(edges, color)
PaintEdgesColor(edges, color) ==
    /\ ncalls < MaxCalls
    /\ LET sorted_edges == Permute(edges, SortPerm(edges, "less"))
           indices0     == [i \in DOMAIN edges |-> 0]
           reversed     == [i \in DOMAIN edges |-> Reverse(sorted_edges[i])]
           sorted_rev   == Permute(reversed, SortPerm(reversed, "less"))
       IN  \E indices1 \in IndicesAfter(indices0, lines_, sorted_edges) :
           \E indices2 \in (IF is_directed_ THEN {indices1}
                             ELSE IndicesAfter(indices1, lines_, sorted_rev)) :
              LET colors1 == ReplaceColors(colors_, indices1, color)
                  colors2 == IF is_directed_ THEN colors1
                             ELSE ReplaceColors(colors1, indices2, color)
                  undef   == \/ ~IntersectionDefined(lines_, sorted_edges)
                             \/ WritesPastColors(colors_, indices1)
                             \/ ~is_directed_ /\ ~IntersectionDefined(lines_, sorted_rev)
                             \/ ~is_directed_ /\ WritesPastColors(colors_, indices2)
              IN  Commit([Snapshot EXCEPT !.colors = colors2] @@ [ub |-> undef],
                         "PaintEdgesColor", edges, <<>>, "none")

\* Graph::HasNodeColors
HasNodeColors == NumPoints > 0 /\ Len(node_colors_) = NumPoints

\* the node colours a paint call starts from: all white if there were none
MaterialisedNodeColors ==
    IF HasNodeColors THEN node_colors_ ELSE Resize(node_colors_, NumPoints, 1)

\* record a call that paints vertices
CommitNodes(node_colors, op, nodes) ==
    /\ node_colors_' = node_colors
    /\ call' = [op |-> op, edges |-> <<>>, weights |-> <<>>, err |-> "none",
                nodes |-> nodes]
    /\ pre' = Snapshot
    /\ ncalls' = ncalls + 1
    /\ UNCHANGED <<lines_, edge_weights_, colors_, edge_index_offsets_, is_directed_, ub,
                   svars, ovars>>

\* Graph::PaintNodeColor(node, color)
PaintNodeColor(node, color) ==
    /\ ncalls < MaxCalls
    /\ CommitNodes([MaterialisedNodeColors EXCEPT ![node + 1] = color],
                   "PaintNodeColor", <<node>>)

\* Graph::PaintNodesColor(nodes, color): for_each runs over the counting range
\* [0, nodes.size())
PaintNodesColor(nodes, color) ==
    /\ ncalls < MaxCalls
    /\ CommitNodes(ReplaceColors(MaterialisedNodeColors,
                                 [i \in DOMAIN nodes |-> i - 1], color),
                   "PaintNodesColor", nodes)

\* thrust::set_difference on ranges sorted by cmp: the positions of a that are
\* copied.  Of m equivalent elements of a and n of b the last max(m - n, 0) stay.
SetDifferenceKeep(a, b, cmp) ==
    LET kept == {i \in DOMAIN a :
                    Cardinality({j \in DOMAIN a : j <= i /\ Equivalent(a[j], a[i], cmp)})
                        > Cardinality({j \in DOMAIN b : Equivalent(b[j], a[i], cmp)})}
    IN  [r \in 1 .. Cardinality(kept) |->
            CHOOSE i \in kept : Cardinality({j \in kept : j <= i}) = r]

\* set_difference requires both ranges sorted by the comparator it is given:
\* thrust::greater in the branches with weights or colours, operator< otherwise
DifferenceDefined(a, b, keyed) ==
    IF keyed THEN IsSorted(a, "greater") /\ IsSorted(b, "greater")
    ELSE IsSorted(a, "less") /\ IsSorted(b, "less")

\* The number of rows a set_difference of RemoveEdges reports: the size of the
\* difference when its precondition holds, any size up to |a| when it does not.
DifferenceCounts(a, b, keyed) ==
    IF ~DifferenceDefined(a, b, keyed) THEN 0 .. Len(a)
    ELSE IF keyed THEN {Len(SetDifferenceKeep(a, b, "greater"))}
    ELSE {Len(SetDifferenceKeep(a, b, "less"))}

\* Graph::RemoveEdges(edges).  new_lines, new_weights and new_colors are empty
\* when set_difference writes through their begin(): the rows written are lost
\* and the resize that follows leaves default-constructed (unspecified) rows.
\* In the branch without weights and colours the second set_difference writes
\* into the storage the first resize of new_lines allocated.  In the other
\* branches the first result is used for nothing once the second has run.
RemoveEdges(edges) ==
    /\ ncalls < MaxCalls
    /\ LET has_colors   == HasColors(lines_, colors_)
           has_weights  == HasWeights(lines_, edge_weights_)
           keyed        == has_colors \/ has_weights
           sorted_edges == Permute(edges, SortPerm(edges, "less"))
           reversed     == [i \in DOMAIN sorted_edges |-> Reverse(sorted_edges[i])]
           defined1     == DifferenceDefined(lines_, sorted_edges, keyed)
           defined2     == DifferenceDefined(lines_, reversed, keyed)
           counts1      == IF ~is_directed_ /\ keyed /\ ~defined1 THEN {0}
                           ELSE DifferenceCounts(lines_, sorted_edges, keyed)
           counts2      == IF is_directed_ THEN {0}
                           ELSE DifferenceCounts(lines_, reversed, keyed)
       IN  \E count1 \in counts1 : \E count2 \in counts2 :
           \E g \in (IF (IF is_directed_ THEN count1 ELSE count2) = 0 THEN {0} ELSE Garbage) :
               LET n         == IF is_directed_ THEN count1 ELSE count2
                   second    == Permute(lines_, SetDifferenceKeep(lines_, reversed, "less"))
                   written   == ~is_directed_ /\ ~keyed /\ defined2
                   new_lines == [i \in 1 .. n |->
                                   IF written /\ i <= count1 THEN second[i] ELSE <<g, g>>]
                   new_weights == IF has_weights THEN [i \in 1 .. n |-> g] ELSE <<>>
                   new_colors  == IF has_colors THEN [i \in 1 .. n |-> g] ELSE <<>>
                   undefined == \/ count1 > 0
                                \/ ~defined1
                                \/ /\ ~is_directed_
                                   /\ \/ ~defined2
                                      \/ keyed /\ count2 > 0
                                      \/ count2 > count1
                   r == ConstructGraph(new_lines, new_weights, new_colors,
                                       edge_index_offsets_, g)
               IN  Commit([r EXCEPT !.ub = r.ub \/ undefined],
                          "RemoveEdges", edges, <<>>, r.err)

\* -------------------------------------------------------------------- SSSP
\* std::numeric_limits<float>::infinity(), the distance of a default SSSPResult
Infinity == 1000000

SSSPResult(d, p) == [shortest_distance_ |-> d, prev_index_ |-> p]

DefaultResult == SSSPResult(Infinity, -1)

\* float addition on the distances of the model: infinity absorbs
Plus(d, w) == IF d = Infinity THEN Infinity ELSE d + w

\* no earlier call whose result is kept
NoRun == [end |-> -1, out |-> <<>>]

\* no for_each is running
NoPhase == [pending |-> {}, expected |-> <<>>]

\* the locals of a run that has not started
SSSPIdle ==
    /\ pc = "idle"
    /\ want_path = FALSE
    /\ start_node_index = -1
    /\ end_node_index = -1
    /\ out = <<>>
    /\ open_flags = <<>>
    /\ indices = <<>>
    /\ nt = 0
    /\ res_tmp = <<>>
    /\ res_tmp_s = <<>>
    /\ sorted_lines = <<>>
    /\ old_to_new_edge_table = <<>>
    /\ path_nodes = <<>>
    /\ iter = 0
    /\ first_run = NoRun
    /\ phase = NoPhase

\* an array that claims every vertex is reached at distance zero
ZeroOut == [v \in 1 .. NumPoints |-> SSSPResult(0, -1)]

\* SSSPResultArray out(points_.size()), returned as it is when the graph is
\* not constructed
NotConstructedOut == [v \in 1 .. NumPoints |-> DefaultResult]

\* Graph::DijkstraPaths(start, end) up to the while loop; path says the caller
\* is DijkstraPath
BeginRun(start, end, path) ==
    /\ want_path' = path
    /\ start_node_index' = start
    /\ end_node_index' = end
    /\ path_nodes' = <<>>
    /\ iter' = 0
    /\ IF ~IsConstructed
       THEN /\ out' = NotConstructedOut
            /\ pc' = "done"
            /\ call' = [op |-> "DijkstraPaths", edges |-> <<<<start, end>>>>,
                        weights |-> <<>>, err |-> "NotConstructed", nodes |-> <<>>]
            /\ UNCHANGED <<open_flags, indices, nt, res_tmp, res_tmp_s, sorted_lines,
                           old_to_new_edge_table>>
       ELSE LET new_to_old == SortPerm(lines_, "dst")
            IN  /\ sorted_lines' = Permute(lines_, new_to_old)
                /\ old_to_new_edge_table' =
                      [j \in DOMAIN lines_ |->
                          (CHOOSE r \in DOMAIN lines_ : new_to_old[r] = j) - 1]
                /\ open_flags' = [v \in 1 .. NumPoints |-> IF v - 1 = start THEN 1 ELSE 0]
                /\ indices' = [v \in 1 .. NumPoints |-> v - 1]
                /\ res_tmp' = [j \in DOMAIN lines_ |-> DefaultResult]
                /\ res_tmp_s' = [v \in 1 .. NumPoints |-> DefaultResult]
                /\ out' = [v \in 1 .. NumPoints |->
                              IF v - 1 = start THEN SSSPResult(0, start) ELSE DefaultResult]
                /\ nt' = NumPoints
                /\ pc' = "loop"
                /\ call' = [op |-> "DijkstraPaths", edges |-> <<<<start, end>>>>,
                            weights |-> <<>>, err |-> "none", nodes |-> <<>>]
    /\ UNCHANGED <<lines_, edge_weights_, colors_, edge_index_offsets_, is_directed_, ub,
                   pre, ncalls, node_colors_, ovars, phase>>

\* the first DijkstraPaths / DijkstraPath call on the graph
DijkstraPathsEnter(start, end, path) ==
    /\ pc = "idle"
    /\ BeginRun(start, end, path)
    /\ UNCHANGED first_run

\* DijkstraPaths(start) called after DijkstraPaths(start, end) has returned on
\* the same graph; the result of the targeted call is kept
DijkstraPathsAgain ==
    /\ pc = "done"
    /\ ~want_path
    /\ end_node_index >= 0
    /\ first_run = NoRun
    /\ first_run' = [end |-> end_node_index, out |-> out]
    /\ BeginRun(start_node_index, -1, FALSE)

\* the vertices the for_each calls of one iteration visit: indices[0 .. nt)
Visited == {indices[i] : i \in 1 .. nt}

\* a comparison against the distance of the start vertex instead of the end
ComparePathLengthToStart(idx) ==
    /\ open_flags[idx + 1] # 0
    /\ out[idx + 1].shortest_distance_ < out[start_node_index + 1].shortest_distance_

\* compare_path_length_functor
ComparePathLength(idx) ==
    /\ open_flags[idx + 1] # 0
    /\ out[idx + 1].shortest_distance_ < out[end_node_index + 1].shortest_distance_

\* the edge rows (0-based) relax_functor walks for the open vertices it visits
RelaxedRows ==
    UNION {edge_index_offsets_[idx + 1] .. (edge_index_offsets_[idx + 2] - 1) :
              idx \in {v \in Visited : open_flags[v + 1] # 0}}

\* relax_functor reads lines_[j], edge_weights_[j] and edge_table_[j]
RelaxInBounds ==
    \A j \in RelaxedRows : 0 <= j /\ j < Len(lines_) /\ j < Len(edge_weights_)

\* a relaxation that writes row j straight into the slot of its destination
EdgeSlotByDestination(j) == lines_[j + 1][2]

\* the slot of res_tmp relax_functor writes for row j: edge_table_[j]
EdgeSlot(j) == old_to_new_edge_table[j + 1]

\* relax_functor over indices[0 .. nt): res_tmp after the for_each.  Row j is
\* written to slot edge_table[j] with the distance of its source lines_[j][0].
Relax ==
    [slot \in DOMAIN res_tmp |->
        IF \E j \in RelaxedRows : EdgeSlot(j) = slot - 1
        THEN LET j == CHOOSE j \in RelaxedRows : EdgeSlot(j) = slot - 1
                 k == lines_[j + 1][1]
             IN  SSSPResult(Plus(out[k + 1].shortest_distance_, edge_weights_[j + 1]), k)
        ELSE res_tmp[slot]]

\* the binary operator of the reduce_by_key: the left operand wins a tie
RECURSIVE MinResult(_, _, _)
MinResult(vals, s, e) ==
    IF s = e THEN vals[s]
    ELSE LET rest == MinResult(vals, s, e - 1)
         IN  IF rest.shortest_distance_ <= vals[e].shortest_distance_ THEN rest ELSE vals[e]

\* a commit that also takes a tie for an improvement, and reopens the vertex
ImprovesOrTies(reduced, idx) ==
    out[idx + 1].shortest_distance_ >= reduced[idx + 1].shortest_distance_

\* update_shortest_distances_functor on vertex idx, reading res_tmp_s
Improves(reduced, idx) ==
    out[idx + 1].shortest_distance_ > reduced[idx + 1].shortest_distance_

\* the destinations of sorted_lines: the keys of the reduce_by_key
ReduceKeys == [i \in DOMAIN sorted_lines |-> sorted_lines[i][2]]

\* indices after the reduce_by_key: one key per run, the rest as it was
ReducedIndices ==
    [i \in 1 .. NumPoints |->
        IF i <= Cardinality(RunStarts(ReduceKeys))
        THEN ReduceKeys[NthRunStart(ReduceKeys, i)] ELSE indices[i]]

\* res_tmp_s after the reduce_by_key over the values relaxed: the minimum of
\* run i at position i, the rest as it was
ReducedValues(relaxed) ==
    [i \in 1 .. NumPoints |->
        IF i <= Cardinality(RunStarts(ReduceKeys))
        THEN MinResult(relaxed, NthRunStart(ReduceKeys, i),
                       RunEnd(ReduceKeys, NthRunStart(ReduceKeys, i)))
        ELSE res_tmp_s[i]]

\* the arrays after one pass of the while loop: relax, reduce and commit, each
\* for_each taken as one step
IterationResult ==
    LET relaxed  == Relax
        closed   == [v \in 1 .. NumPoints |->
                        IF (v - 1) \in Visited THEN 0 ELSE open_flags[v]]
        nr       == Cardinality(RunStarts(ReduceKeys))
        indices1 == ReducedIndices
        reduced  == ReducedValues(relaxed)
        commit   == {indices1[i] : i \in 1 .. nr}
    IN  [res_tmp    |-> relaxed,
         indices    |-> indices1,
         res_tmp_s  |-> reduced,
         nt         |-> nr,
         out        |-> [v \in 1 .. NumPoints |->
                            IF (v - 1) \in commit /\ Improves(reduced, v - 1)
                            THEN reduced[v] ELSE out[v]],
         open_flags |-> [v \in 1 .. NumPoints |->
                            IF (v - 1) \in commit /\ Improves(reduced, v - 1)
                            THEN 1 ELSE closed[v]]]

\* one pass of the while loop of DijkstraPaths
DijkstraIterate ==
    /\ pc = "loop"
    /\ UNCHANGED <<gvars, ovars, want_path, start_node_index, end_node_index, sorted_lines,
                   old_to_new_edge_table, path_nodes, first_run, phase>>
    /\ IF \A v \in 1 .. NumPoints : open_flags[v] # 1
       THEN /\ pc' = "done"
            /\ UNCHANGED <<out, open_flags, indices, nt, res_tmp, res_tmp_s, iter>>
       ELSE IF end_node_index >= 0 /\ \A idx \in Visited : ~ComparePathLength(idx)
       THEN /\ pc' = "done"
            /\ UNCHANGED <<out, open_flags, indices, nt, res_tmp, res_tmp_s, iter>>
       ELSE IF ~RelaxInBounds
       THEN /\ pc' = "undefined"
            /\ UNCHANGED <<out, open_flags, indices, nt, res_tmp, res_tmp_s, iter>>
       ELSE LET r == IterationResult
            IN  /\ res_tmp' = r.res_tmp
                /\ indices' = r.indices
                /\ res_tmp_s' = r.res_tmp_s
                /\ nt' = r.nt
                /\ out' = r.out
                /\ open_flags' = r.open_flags
                /\ iter' = iter + 1
                /\ pc' = "loop"

\* ---- the same loop with every element of a for_each as a step of its own
\* the head of the while loop, up to the start of the first for_each
RelaxBegin ==
    /\ pc = "loop"
    /\ UNCHANGED <<gvars, ovars, want_path, start_node_index, end_node_index, sorted_lines,
                   old_to_new_edge_table, path_nodes, first_run, out, open_flags, indices,
                   nt, res_tmp, res_tmp_s, iter>>
    /\ IF \A v \in 1 .. NumPoints : open_flags[v] # 1
       THEN pc' = "done" /\ phase' = NoPhase
       ELSE IF end_node_index >= 0 /\ \A idx \in Visited : ~ComparePathLength(idx)
       THEN pc' = "done" /\ phase' = NoPhase
       ELSE IF ~RelaxInBounds
       THEN pc' = "undefined" /\ phase' = NoPhase
       ELSE /\ pc' = "relax"
            /\ phase' = [pending |-> 1 .. nt, expected |-> IterationResult]

\* the for loop of relax_functor over the rows j .. e - 1 of one vertex
RECURSIVE RelaxRows(_, _, _)
RelaxRows(tmp, j, e) ==
    IF j >= e THEN tmp
    ELSE LET k == lines_[j + 1][1]
         IN  RelaxRows([slot \in DOMAIN tmp |->
                           IF slot = EdgeSlot(j) + 1
                           THEN SSSPResult(Plus(out[k + 1].shortest_distance_,
                                                 edge_weights_[j + 1]), k)
                           ELSE tmp[slot]],
                       j + 1, e)

\* relax_functor on the element at position i of indices
RelaxElement(i) ==
    /\ pc = "relax"
    /\ i \in phase.pending
    /\ phase' = [phase EXCEPT !.pending = @ \ {i}]
    /\ UNCHANGED <<gvars, ovars, pc, want_path, start_node_index, end_node_index,
                   sorted_lines, old_to_new_edge_table, path_nodes, first_run, out, indices,
                   nt, res_tmp_s, iter>>
    /\ LET idx == indices[i]
       IN  IF open_flags[idx + 1] = 0
           THEN UNCHANGED <<open_flags, res_tmp>>
           ELSE /\ open_flags' = [open_flags EXCEPT ![idx + 1] = 0]
                /\ res_tmp' = RelaxRows(res_tmp, edge_index_offsets_[idx + 1],
                                        edge_index_offsets_[idx + 2])

\* the reduce_by_key between the two for_each calls, and nt
ReduceByKey ==
    /\ pc = "relax"
    /\ phase.pending = {}
    /\ indices' = ReducedIndices
    /\ res_tmp_s' = ReducedValues(res_tmp)
    /\ nt' = Cardinality(RunStarts(ReduceKeys))
    /\ pc' = "commit"
    /\ phase' = [phase EXCEPT !.pending = 1 .. Cardinality(RunStarts(ReduceKeys))]
    /\ UNCHANGED <<gvars, ovars, want_path, start_node_index, end_node_index, sorted_lines,
                   old_to_new_edge_table, path_nodes, first_run, out, open_flags, res_tmp,
                   iter>>

\* update_shortest_distances_functor on the element at position i of indices
CommitElement(i) ==
    /\ pc = "commit"
    /\ i \in phase.pending
    /\ phase' = [phase EXCEPT !.pending = @ \ {i}]
    /\ UNCHANGED <<gvars, ovars, pc, want_path, start_node_index, end_node_index,
                   sorted_lines, old_to_new_edge_table, path_nodes, first_run, indices, nt,
                   res_tmp, res_tmp_s, iter>>
    /\ LET idx == indices[i]
       IN  IF Improves(res_tmp_s, idx)
           THEN /\ out' = [out EXCEPT ![idx + 1] = res_tmp_s[idx + 1]]
                /\ open_flags' = [open_flags EXCEPT ![idx + 1] = 1]
           ELSE UNCHANGED <<out, open_flags>>

\* the second for_each has finished: back to the head of the while loop
IterationEnd ==
    /\ pc = "commit"
    /\ phase.pending = {}
    /\ pc' = "loop"
    /\ iter' = iter + 1
    /\ UNCHANGED <<gvars, ovars, want_path, start_node_index, end_node_index, sorted_lines,
                   old_to_new_edge_table, path_nodes, first_run, phase, out, open_flags,
                   indices, nt, res_tmp, res_tmp_s>>

\* the while loop of DijkstraPath: the nodes pushed while walking prev_index_
\* from prev back to start; <<-1>> ends a walk that leaves the array or does
\* not reach start within NumPoints steps (the loop then never ends)
RECURSIVE WalkBack(_, _, _)
WalkBack(res, prev, fuel) ==
    IF prev = start_node_index THEN <<>>
    ELSE IF fuel = 0 \/ prev < 0 \/ prev >= NumPoints THEN <<-1>>
    ELSE <<prev>> \o WalkBack(res, res[prev + 1].prev_index_, fuel - 1)

ReverseSeq(s) == [i \in DOMAIN s |-> s[Len(s) + 1 - i]]

\* Graph::DijkstraPath(start, end) after its call of DijkstraPaths
DijkstraPathReturn ==
    /\ pc = "done"
    /\ want_path
    /\ UNCHANGED <<gvars, ovars, want_path, start_node_index, end_node_index, out, open_flags,
                   indices, nt, res_tmp, res_tmp_s, sorted_lines, old_to_new_edge_table,
                   iter, first_run, phase>>
    /\ IF out[end_node_index + 1].prev_index_ < 0
       THEN path_nodes' = <<>> /\ pc' = "returned"
       ELSE LET walk == WalkBack(out, out[end_node_index + 1].prev_index_, NumPoints)
            IN  IF -1 \in Range(walk)
                THEN path_nodes' = <<>> /\ pc' = "undefined"
                ELSE /\ path_nodes' = ReverseSeq(<<end_node_index>> \o walk
                                                    \o <<start_node_index>>)
                     /\ pc' = "returned"

\* ----------------------------------------------------------- OccupancyGrid
\* Lengths are integers in units of 1/8 voxel; log-odds are integers in units
\* of 0.05.  The points and the viewpoint offered to Insert lie on one axis
\* through the viewpoint at distances that are multiples of the voxel size, so
\* every float operation of Insert is exact on them.
Resolution == 2

VoxelSize == 8

MaxOps == 2

MaxPoints == 2

\* quiet NaN, the prob_log_ of a default OccupancyVoxel
NaN == 999999

INVALID_VOXEL_INDEX == 2147483647

DefaultClampingThresMin == -40

DefaultClampingThresMax == 70

DefaultProbHitLog == 17

DefaultProbMissLog == -8

\* float occ_prob_thres_log_ = 0.0
occ_prob_thres_log_ == 0

\* the members clamping_thres_min_, clamping_thres_max_, prob_hit_log_,
\* prob_miss_log_ as the class initialises them, and a second setting
ParamInputs ==
    {[min |-> DefaultClampingThresMin, max |-> DefaultClampingThresMax,
      hit |-> DefaultProbHitLog, miss |-> DefaultProbMissLog],
     [min |-> -10, max |-> 20, hit |-> DefaultProbHitLog, miss |-> DefaultProbMissLog]}

Abs(x) == IF x < 0 THEN -x ELSE x

Min(a, b) == IF a <= b THEN a ELSE b

Max(a, b) == IF a >= b THEN a ELSE b

Add3(a, b) == <<a[1] + b[1], a[2] + b[2], a[3] + b[3]>>

Sub3(a, b) == <<a[1] - b[1], a[2] - b[2], a[3] - b[3]>>

Dot3(a, b) == a[1] * b[1] + a[2] * b[2] + a[3] * b[3]

\* Eigen::Vector3f::norm(); exact on the inputs of the model
Norm(d) ==
    CHOOSE n \in 0 .. (Abs(d[1]) + Abs(d[2]) + Abs(d[3])) :
        n * n <= Dot3(d, d) /\ (n + 1) * (n + 1) > Dot3(d, d)

\* operator< on Eigen::Vector3i
Less3(a, b) ==
    \/ a[1] < b[1]
    \/ a[1] = b[1] /\ a[2] < b[2]
    \/ a[1] = b[1] /\ a[2] = b[2] /\ a[3] < b[3]

\* thrust::sort then thrust::unique: the distinct elements in ascending order
RECURSIVE SortUnique(_)
SortUnique(S) ==
    IF S = {} THEN <<>>
    ELSE LET least == CHOOSE a \in S : \A b \in S \ {a} : Less3(a, b)
         IN  <<least>> \o SortUnique(S \ {least})

\* IndexOf(voxel, resolution)
IndexOf(voxel, resolution) ==
    voxel[1] + voxel[2] * resolution + voxel[3] * resolution * resolution

DefaultVoxel == [prob_log_ |-> NaN, grid_index_ |-> <<0, 0, 0>>]

Cells == 0 .. (resolution_ * resolution_ * resolution_ - 1)

\* a clamp that has lost its upper bound
ClampWithoutMax(p) == Max(p, clamping_thres_min_)

\* min(max(p, clamping_thres_min_), clamping_thres_max_)
Clamp(p) == Min(Max(p, clamping_thres_min_), clamping_thres_max_)

\* the prob_log_ one update writes: add_occupancy_functor and AddVoxel
AddOccupancy(p, occupied) ==
    Clamp((IF p = NaN THEN 0 ELSE p) + (IF occupied THEN prob_hit_log_ ELSE prob_miss_log_))

RECURSIVE Increments(_, _, _)
Increments(p, occupied, m) ==
    IF m = 0 THEN p ELSE AddOccupancy(Increments(p, occupied, m - 1), occupied)

\* intersection_test::LineSegmentAABB on the closed segment p0 p1 and the closed
\* box of side `side` centred at center2 / 2: no axis separates them
LineSegmentAABB(p0, p1, center2, side) ==
    LET m == Sub3(Add3(p0, p1), center2)
        d == Sub3(p1, p0)
    IN  /\ \A i \in 1 .. 3 : Abs(m[i]) <= side + Abs(d[i])
        /\ Abs(m[2] * d[3] - m[3] * d[2]) <= side * Abs(d[3]) + side * Abs(d[2])
        /\ Abs(m[3] * d[1] - m[1] * d[3]) <= side * Abs(d[3]) + side * Abs(d[1])
        /\ Abs(m[1] * d[2] - m[2] * d[1]) <= side * Abs(d[2]) + side * Abs(d[1])

voxel_offset ==
    <<<<0, 0, 0>>, <<1, 0, 0>>, <<-1, 0, 0>>, <<0, 1, 0>>, <<0, -1, 0>>, <<0, 0, 1>>,
      <<0, 0, -1>>>>

Floor3(num, den) == <<num[1] \div den, num[2] \div den, num[3] \div den>>

Invalid3 == <<INVALID_VOXEL_INDEX, INVALID_VOXEL_INDEX, INVALID_VOXEL_INDEX>>

\* compute_intersect_voxel_segment_functor: voxel_idx, the floor of sample
\* sidx of the ray in voxel units; the step of the point is
\* (point - viewpoint) / n_div
SampleVoxel(point, viewpoint, n_div, sidx) ==
    LET diff      == Sub3(point, viewpoint)
        center_n  == <<sidx * diff[1] + n_div * (viewpoint[1] - origin_[1]),
                       sidx * diff[2] + n_div * (viewpoint[2] - origin_[2]),
                       sidx * diff[3] + n_div * (viewpoint[3] - origin_[3])>>
    IN  Floor3(center_n, n_div * voxel_size_)

\* compute_intersect_voxel_segment_functor: is_intersect, the test of the
\* segment against the box of side voxel_size_ centred at
\* voxel_size_ * (voxel_idx + voxel_offset[vidx])
IsIntersect(point, viewpoint, n_div, sidx, vidx) ==
    LET shifted == Add3(SampleVoxel(point, viewpoint, n_div, sidx), voxel_offset[vidx])
        center2 == <<2 * voxel_size_ * shifted[1], 2 * voxel_size_ * shifted[2],
                     2 * voxel_size_ * shifted[3]>>
    IN  LineSegmentAABB(viewpoint, point, center2, voxel_size_)

\* compute_intersect_voxel_segment_functor for point `point`, sample sidx and
\* offset vidx
IntersectVoxelSegment(point, viewpoint, n_div, sidx, vidx) ==
    LET half == resolution_ \div 2
    IN  IF IsIntersect(point, viewpoint, n_div, sidx, vidx)
        THEN Add3(SampleVoxel(point, viewpoint, n_div, sidx), <<half, half, half>>)
        ELSE Invalid3

\* the remove_if of ComputeFreeVoxels and ComputeOccupiedVoxels keeps idx
KeptByFilter(idx) ==
    LET max_idx == resolution_ * resolution_ * resolution_
    IN  \A i \in 1 .. 3 : idx[i] >= 0 /\ idx[i] < max_idx

\* ComputeFreeVoxels(points, viewpoint, .., steps, n_div + 1, free_voxels)
ComputeFreeVoxels(points, viewpoint, n_div) ==
    SortUnique({idx \in {IntersectVoxelSegment(points[p], viewpoint, n_div, sidx, vidx) :
                            p \in DOMAIN points, sidx \in 0 .. n_div, vidx \in 1 .. 7} :
                   KeptByFilter(idx)})

\* create_occupancy_voxels_functor
CreateOccupancyVoxel(point, hit_flag) ==
    LET half == resolution_ \div 2
    IN  IF hit_flag
        THEN Add3(Floor3(Sub3(point, origin_), voxel_size_), <<half, half, half>>)
        ELSE Invalid3

\* ComputeOccupiedVoxels(points, hit_flags, .., occupied_voxels)
ComputeOccupiedVoxels(points, hit_flags) ==
    SortUnique({idx \in {CreateOccupancyVoxel(points[p], hit_flags[p]) : p \in DOMAIN points} :
                   KeptByFilter(idx)})

\* thrust::set_difference of two sorted duplicate-free lists
SetDifference3(a, b) == SortUnique(Range(a) \ Range(b))

InArray(idx) == 0 <= idx /\ idx < resolution_ * resolution_ * resolution_

\* the entries of voxels whose update lands on cell c
EntriesOn(voxels, c) == {i \in DOMAIN voxels : IndexOf(voxels[i], resolution_) = c}

\* What the unordered updates of one for_each can leave in a cell that k
\* entries address: each update reads prob_log_, adds and writes back, so from
\* 1 to k of the increments take effect, and grid_index_ is the voxel of any
\* one of the entries.
CellOutcomes(cell, voxels, hits, occupied) ==
    {[prob_log_ |-> Increments(cell.prob_log_, occupied, m), grid_index_ |-> voxels[i]] :
        m \in 1 .. Cardinality(hits), i \in hits}

\* OccupancyGrid::AddVoxels(voxels, occupied) on the array vox: the arrays the
\* for_each can leave.  An entry whose linear index is outside the array writes
\* outside voxels_ and changes no cell.
RECURSIVE AddVoxelsOutcomes(_, _, _, _)
AddVoxelsOutcomes(vox, voxels, occupied, cells) ==
    IF cells = {} THEN {vox}
    ELSE LET c    == CHOOSE x \in cells : TRUE
             hits == EntriesOn(voxels, c)
         IN  IF hits = {} THEN AddVoxelsOutcomes(vox, voxels, occupied, cells \ {c})
             ELSE UNION {AddVoxelsOutcomes([vox EXCEPT ![c] = cell], voxels, occupied,
                                           cells \ {c}) :
                            cell \in CellOutcomes(vox[c], voxels, hits, occupied)}

WritesOutside(voxels) ==
    \E i \in DOMAIN voxels : ~InArray(IndexOf(voxels[i], resolution_))

NoGridCall == [op |-> "none", occupied |-> FALSE, voxels |-> <<>>, points |-> <<>>,
               viewpoint |-> <<0, 0, 0>>, max_range |-> -1, answer |-> FALSE,
               resolution |-> 0]

\* OccupancyGrid::AddVoxel(voxel, occupied)
AddVoxel(voxel, occupied) ==
    /\ nops < MaxOps
    /\ LET idx == IndexOf(voxel, resolution_)
       IN  voxels_' = IF idx < 0 \/ idx >= resolution_ * resolution_ * resolution_
                      THEN voxels_
                      ELSE [voxels_ EXCEPT ![idx] =
                               [prob_log_ |-> AddOccupancy(voxels_[idx].prob_log_, occupied),
                                grid_index_ |-> voxel]]
    /\ gcall' = [NoGridCall EXCEPT !.op = "AddVoxel", !.occupied = occupied,
                                   !.voxels = <<voxel>>]
    /\ gpre' = voxels_
    /\ gcall2' = gcall
    /\ gpre2' = gpre
    /\ nops' = nops + 1
    /\ UNCHANGED <<gvars, svars, resolution_, voxel_size_, origin_, clamping_thres_min_,
                   clamping_thres_max_, prob_hit_log_, prob_miss_log_, grid_ub, free_voxels,
                   occupied_voxels, free_voxels_res>>

\* OccupancyGrid::AddVoxels(voxels, occupied)
AddVoxels(voxels, occupied) ==
    /\ nops < MaxOps
    /\ voxels_' \in AddVoxelsOutcomes(voxels_, voxels, occupied, Cells)
    /\ grid_ub' = (grid_ub \/ WritesOutside(voxels))
    /\ gcall' = [NoGridCall EXCEPT !.op = "AddVoxels", !.occupied = occupied,
                                   !.voxels = voxels]
    /\ gpre' = voxels_
    /\ gcall2' = gcall
    /\ gpre2' = gpre
    /\ nops' = nops + 1
    /\ UNCHANGED <<gvars, svars, resolution_, voxel_size_, origin_, clamping_thres_min_,
                   clamping_thres_max_, prob_hit_log_, prob_miss_log_, free_voxels,
                   occupied_voxels, free_voxels_res>>

\* a range test that calls every point a hit
RangePointAlwaysHit(pt, viewpoint, max_range) ==
    LET pt_vp  == Sub3(pt, viewpoint)
        dist   == Norm(pt_vp)
        is_hit == max_range < 0 \/ dist <= max_range
    IN  [point |-> IF is_hit THEN pt
                   ELSE Add3(viewpoint, <<(pt_vp[1] * max_range) \div dist,
                                          (pt_vp[2] * max_range) \div dist,
                                          (pt_vp[3] * max_range) \div dist>>),
         dist  |-> IF is_hit THEN dist ELSE max_range,
         hit   |-> TRUE]

\* the first transform of Insert on one point: (ranged point, squared ranged
\* distance, hit flag)
RangePoint(pt, viewpoint, max_range) ==
    LET pt_vp  == Sub3(pt, viewpoint)
        dist   == Norm(pt_vp)
        is_hit == max_range < 0 \/ dist <= max_range
    IN  [point |-> IF is_hit THEN pt
                   ELSE Add3(viewpoint, <<(pt_vp[1] * max_range) \div dist,
                                          (pt_vp[2] * max_range) \div dist,
                                          (pt_vp[3] * max_range) \div dist>>),
         dist  |-> IF is_hit THEN dist ELSE max_range,
         hit   |-> is_hit]

\* a number of divisions that is never zero
NDivAtLeastOne(max_dist) == Max((max_dist + voxel_size_ - 1) \div voxel_size_, 1)

\* int(std::ceil(max_dist / voxel_size_))
NDiv(max_dist) == (max_dist + voxel_size_ - 1) \div voxel_size_

MaxOf(s) == CHOOSE x \in Range(s) : \A y \in Range(s) : y <= x

\* OccupancyGrid::Insert(points, viewpoint, max_range)
Insert(points, viewpoint, max_range) ==
    /\ nops < MaxOps
    /\ gcall' = [NoGridCall EXCEPT !.op = "Insert", !.points = points,
                                   !.viewpoint = viewpoint, !.max_range = max_range]
    /\ gpre' = voxels_
    /\ gcall2' = gcall
    /\ gpre2' = gpre
    /\ nops' = nops + 1
    /\ UNCHANGED <<gvars, svars, resolution_, voxel_size_, origin_, clamping_thres_min_,
                   clamping_thres_max_, prob_hit_log_, prob_miss_log_>>
    /\ IF points = <<>>
       THEN /\ free_voxels' = <<>>
            /\ occupied_voxels' = <<>>
            /\ free_voxels_res' = <<>>
            /\ UNCHANGED <<voxels_, grid_ub>>
       ELSE LET ranged  == [i \in DOMAIN points |-> RangePoint(points[i], viewpoint, max_range)]
                n_div   == NDiv(MaxOf([i \in DOMAIN points |-> ranged[i].dist]))
                ranged_points == [i \in DOMAIN points |->
                                     IF n_div > 0 THEN ranged[i].point ELSE points[i]]
                hit_flags     == [i \in DOMAIN points |->
                                     IF n_div > 0 THEN ranged[i].hit ELSE TRUE]
                free     == IF n_div > 0 THEN ComputeFreeVoxels(ranged_points, viewpoint, n_div)
                            ELSE <<>>
                occupied == ComputeOccupiedVoxels(ranged_points, hit_flags)
                free_res == IF n_div > 0 THEN SetDifference3(free, occupied) ELSE <<>>
            IN  /\ free_voxels' = free
                /\ occupied_voxels' = occupied
                /\ free_voxels_res' = free_res
                /\ \E after_free \in AddVoxelsOutcomes(voxels_, free_res, FALSE, Cells) :
                      voxels_' \in AddVoxelsOutcomes(after_free, occupied, TRUE, Cells)
                /\ grid_ub' = (grid_ub \/ WritesOutside(free_res) \/ WritesOutside(occupied))

\* the voxel coordinate GetVoxelIndex computes for point
VoxelOfPoint(point) ==
    LET h_res == resolution_ \div 2
    IN  Add3(Floor3(Sub3(point, origin_), voxel_size_), <<h_res, h_res, h_res>>)

\* OccupancyGrid::GetVoxelIndex(point)
GetVoxelIndex(point) ==
    LET idx == IndexOf(VoxelOfPoint(point), resolution_)
    IN  IF idx < 0 \/ idx >= resolution_ * resolution_ * resolution_ THEN -1 ELSE idx

\* what OccupancyGrid::IsOccupied(point) returns
IsOccupied(point) ==
    LET idx == GetVoxelIndex(point)
    IN  IF idx < 0 THEN FALSE
        ELSE voxels_[idx].prob_log_ # NaN /\ voxels_[idx].prob_log_ > occ_prob_thres_log_

\* what OccupancyGrid::IsUnknown(point) returns
IsUnknown(point) ==
    LET idx == GetVoxelIndex(point)
    IN  IF idx < 0 THEN TRUE ELSE voxels_[idx].prob_log_ = NaN

\* a call of IsOccupied(point) or IsUnknown(point): the grid stays as it is
Query(op, point, answer) ==
    /\ nops < MaxOps
    /\ gcall' = [NoGridCall EXCEPT !.op = op, !.points = <<point>>, !.answer = answer]
    /\ gpre' = voxels_
    /\ gcall2' = gcall
    /\ gpre2' = gpre
    /\ nops' = nops + 1
    /\ UNCHANGED <<gvars, svars, voxels_, resolution_, voxel_size_, origin_,
                   clamping_thres_min_, clamping_thres_max_, prob_hit_log_, prob_miss_log_,
                   grid_ub, free_voxels, occupied_voxels, free_voxels_res>>

IsOccupiedCall(point) == Query("IsOccupied", point, IsOccupied(point))

IsUnknownCall(point) == Query("IsUnknown", point, IsUnknown(point))

\* voxels_.resize(n, OccupancyVoxel()): the first cells keep what they hold,
\* cells beyond the old size are default voxels
ResizeVoxels(voxels, n) ==
    [c \in 0 .. (n - 1) |-> IF c \in DOMAIN voxels THEN voxels[c] ELSE DefaultVoxel]

\* OccupancyGrid::ReconstructVoxels(voxel_size, resolution)
ReconstructVoxels(voxel_size, resolution) ==
    /\ nops < MaxOps
    /\ voxel_size_' = voxel_size
    /\ resolution_' = resolution
    /\ voxels_' = ResizeVoxels(voxels_, resolution * resolution * resolution)
    /\ gcall' = [NoGridCall EXCEPT !.op = "ReconstructVoxels", !.resolution = resolution]
    /\ gpre' = voxels_
    /\ gcall2' = gcall
    /\ gpre2' = gpre
    /\ nops' = nops + 1
    /\ UNCHANGED <<gvars, svars, origin_, clamping_thres_min_, clamping_thres_max_,
                   prob_hit_log_, prob_miss_log_, grid_ub, free_voxels, occupied_voxels,
                   free_voxels_res>>

\* OccupancyGrid(voxel_size, resolution, origin) with every voxel unknown
GridInitAt(params, resolution) ==
    /\ resolution_ = resolution
    /\ voxel_size_ = VoxelSize
    /\ origin_ = <<0, 0, 0>>
    /\ voxels_ = [c \in 0 .. (resolution * resolution * resolution - 1) |-> DefaultVoxel]
    /\ clamping_thres_min_ = params.min
    /\ clamping_thres_max_ = params.max
    /\ prob_hit_log_ = params.hit
    /\ prob_miss_log_ = params.miss
    /\ grid_ub = FALSE
    /\ free_voxels = <<>>
    /\ occupied_voxels = <<>>
    /\ free_voxels_res = <<>>
    /\ gcall = NoGridCall
    /\ gpre = [c \in 0 .. (resolution * resolution * resolution - 1) |-> DefaultVoxel]
    /\ gcall2 = NoGridCall
    /\ gpre2 = [c \in 0 .. (resolution * resolution * resolution - 1) |-> DefaultVoxel]
    /\ nops = 0

GridInit(params) == GridInitAt(params, Resolution)

\* ------------------------------------------- Graph: weights from positions
\* Graph::points_: the corners of a 3 x 4 rectangle, so every distance between
\* two vertices is an integer and the float norm is exact
points_ ==
    [v \in Vertices |->
        CASE v = 0 -> <<0, 0, 0>>
          [] v = 1 -> <<3, 0, 0>>
          [] v = 2 -> <<3, 4, 0>>
          [] OTHER -> <<0, 4, 0>>]

\* the norm of the position of the source alone
SourceLength(edge) == Norm(points_[edge[1]])

\* (pt_ptr[edge[0]] - pt_ptr[edge[1]]).norm()
EdgeLength(edge) == Norm(Sub3(points_[edge[1]], points_[edge[2]]))

\* Graph::SetEdgeWeightsFromDistance()
SetEdgeWeightsFromDistance ==
    /\ ncalls < MaxCalls
    /\ Commit([Snapshot EXCEPT !.weights = [i \in DOMAIN lines_ |-> EdgeLength(lines_[i])]]
                  @@ [ub |-> FALSE],
              "SetEdgeWeightsFromDistance", <<>>, <<>>, "none")

\* ------------------------------------------------------------ specification
NoCall == [op |-> "none", edges |-> <<>>, weights |-> <<>>, err |-> "none",
           nodes |-> <<>>]

\* Graph(points): no edges, nothing constructed
GraphInit ==
    /\ lines_ = <<>>
    /\ edge_weights_ = <<>>
    /\ colors_ = <<>>
    /\ edge_index_offsets_ = <<>>
    /\ is_directed_ \in BOOLEAN
    /\ ub = FALSE
    /\ call = NoCall
    /\ pre = [lines |-> <<>>, weights |-> <<>>, colors |-> <<>>, offsets |-> <<>>,
              node_colors |-> <<>>]
    /\ ncalls = 0
    /\ node_colors_ = <<>>

EdgeLists == SeqsUpTo(BatchEdgeInputs, MaxBatch) \ {<<>>}
WeightLists == {<<>>} \cup {[i \in 1 .. k |-> 1 + (i % 2)] : k \in 1 .. MaxBatch}

GraphNext ==
    \/ ConstructGraphCall
    \/ \E e \in EdgeInputs : \E w \in WeightInputs : AddEdge(e, w)
    \/ \E es \in EdgeLists : \E ws \in WeightLists : AddEdges(es, ws)
    \/ \E e \in EdgeInputs : RemoveEdge(e)
    \/ \E es \in EdgeLists : RemoveEdges(es)
    \/ \E e \in BatchEdgeInputs : PaintEdgeColor(e, 2)

\* a graph without edges on NumPoints vertices, no query running, and a grid
\* that is never touched
Init ==
    /\ GraphInit
    /\ SSSPIdle
    /\ GridInit([min |-> DefaultClampingThresMin, max |-> DefaultClampingThresMax,
                 hit |-> DefaultProbHitLog, miss |-> DefaultProbMissLog])

SpecGraph == Init /\ [][GraphNext]_vars

\* A graph built by AddEdge / AddEdges calls, then one DijkstraPaths or
\* DijkstraPath run on it.
BuildCalls == 2

SSSPNext ==
    \/ pc = "idle" /\ ncalls < BuildCalls
          /\ \E e \in EdgeInputs : \E w \in WeightInputs : AddEdge(e, w)
    \/ pc = "idle" /\ ncalls < BuildCalls
          /\ \E es \in EdgeLists : \E ws \in WeightLists : AddEdges(es, ws)
    \/ \E s \in Vertices : \E e \in Vertices \cup {-1} : DijkstraPathsEnter(s, e, FALSE)
    \/ \E s \in Vertices : \E e \in Vertices : DijkstraPathsEnter(s, e, TRUE)
    \/ DijkstraIterate
    \/ DijkstraPathReturn

SpecSSSP == Init /\ [][SSSPNext]_vars

\* A graph built by AddEdge / AddEdges calls, then DijkstraPaths(start, end)
\* followed by DijkstraPaths(start) on the same graph.
TargetedNext ==
    \/ pc = "idle" /\ ncalls < BuildCalls
          /\ \E e \in EdgeInputs : \E w \in WeightInputs : AddEdge(e, w)
    \/ pc = "idle" /\ ncalls < BuildCalls
          /\ \E es \in EdgeLists : \E ws \in WeightLists : AddEdges(es, ws)
    \/ \E s \in Vertices : \E e \in Vertices : DijkstraPathsEnter(s, e, FALSE)
    \/ DijkstraIterate
    \/ DijkstraPathsAgain

SpecTargeted == Init /\ [][TargetedNext]_vars

\* A graph built by AddEdge / AddEdges calls, then one DijkstraPaths run on it
\* in which the elements of each for_each are processed one at a time in any
\* order.
PhasesNext ==
    \/ pc = "idle" /\ ncalls < BuildCalls
          /\ \E e \in EdgeInputs : \E w \in WeightInputs : AddEdge(e, w)
    \/ pc = "idle" /\ ncalls < BuildCalls
          /\ \E es \in EdgeLists : \E ws \in WeightLists : AddEdges(es, ws)
    \/ \E s \in Vertices : \E e \in Vertices \cup {-1} : DijkstraPathsEnter(s, e, FALSE)
    \/ RelaxBegin
    \/ \E i \in 1 .. NumPoints : RelaxElement(i)
    \/ ReduceByKey
    \/ \E i \in 1 .. NumPoints : CommitElement(i)
    \/ IterationEnd

SpecPhases == Init /\ [][PhasesNext]_vars

\* A graph built by AddEdge / AddEdges calls with weights that include 0, then
\* one DijkstraPaths run on it.  The while loop is a loop of one thread: once
\* entered, its next pass is taken.  Passes are followed up to MaxIter.
MaxIter == 6

ZeroWeightInputs == {0, 1}

BoundedIterate == iter < MaxIter /\ DijkstraIterate

TerminationNext ==
    \/ pc = "idle" /\ ncalls < BuildCalls
          /\ \E e \in EdgeInputs : \E w \in ZeroWeightInputs : AddEdge(e, w)
    \/ pc = "idle" /\ ncalls < BuildCalls
          /\ \E es \in EdgeLists : \E ws \in WeightLists : AddEdges(es, ws)
    \/ \E s \in Vertices : \E e \in Vertices \cup {-1} : DijkstraPathsEnter(s, e, FALSE)
    \/ BoundedIterate

SpecTermination == Init /\ [][TerminationNext]_vars /\ WF_vars(BoundedIterate)

\* The viewpoint lies in voxel (0,0,0) of the grid.  The points lie on the
\* axes through it: in voxel (0,1,0), in the voxels (2,0,0), (4,0,0) and
\* (0,0,2) outside the grid, and on the viewpoint itself.
ViewpointInputs == {<<-6, -6, -6>>}

PointInputs == {<<-6, 2, -6>>, <<10, -6, -6>>, <<26, -6, -6>>, <<-6, -6, 10>>, <<-6, -6, -6>>}

MaxRangeInputs == {-1, 2 * VoxelSize}

VoxelInputs == {<<0, 1, 0>>, <<2, 0, 0>>, <<-1, 0, 0>>, <<1, 1, 1>>}

\* The result of Insert and the outcomes of AddVoxels do not depend on the
\* order of the list, and Insert removes repeated voxels: one order of every
\* list is offered, with repetitions for AddVoxels.
PointLists ==
    {SortUnique(S) : S \in {T \in SUBSET PointInputs : Cardinality(T) <= MaxPoints}}

VoxelLists ==
    {s \in SeqsUpTo(VoxelInputs, MaxBatch) :
        \A i \in 1 .. (Len(s) - 1) : ~Less3(s[i + 1], s[i])}

GridNext ==
    \/ \E voxel \in VoxelInputs : \E occupied \in BOOLEAN : AddVoxel(voxel, occupied)
    \/ \E voxels \in VoxelLists : \E occupied \in BOOLEAN : AddVoxels(voxels, occupied)
    \/ \E points \in PointLists : \E viewpoint \in ViewpointInputs :
          \E max_range \in MaxRangeInputs : Insert(points, viewpoint, max_range)
    \/ \E point \in PointInputs : IsOccupiedCall(point)
    \/ \E point \in PointInputs : IsUnknownCall(point)

\* a grid without observations, next to a graph that is never touched
GridSpecInit ==
    /\ GraphInit
    /\ is_directed_
    /\ SSSPIdle
    /\ \E params \in ParamInputs : GridInit(params)

SpecGrid == GridSpecInit /\ [][GridNext]_vars

\* A graph built by AddEdge / AddEdges calls whose edges and vertices are then
\* painted.
NodeLists == SeqsUpTo(Vertices, MaxBatch) \ {<<>>}

PaintNext ==
    \/ \E e \in EdgeInputs : \E w \in WeightInputs : AddEdge(e, w)
    \/ \E es \in EdgeLists : \E ws \in WeightLists : AddEdges(es, ws)
    \/ \E e \in BatchEdgeInputs : PaintEdgeColor(e, 2)
    \/ \E es \in EdgeLists : PaintEdgesColor(es, 2)
    \/ \E node \in Vertices : PaintNodeColor(node, 2)
    \/ \E nodes \in NodeLists : PaintNodesColor(nodes, 2)

SpecPaint == Init /\ [][PaintNext]_vars

\* A graph built by AddEdge / AddEdges calls whose weights are then taken from
\* the positions of the vertices.
WeightsNext ==
    \/ \E e \in EdgeInputs : \E w \in WeightInputs : AddEdge(e, w)
    \/ \E es \in EdgeLists : \E ws \in WeightLists : AddEdges(es, ws)
    \/ SetEdgeWeightsFromDistance

SpecWeights == Init /\ [][WeightsNext]_vars

\* A grid that receives observations and is then reconstructed with the same,
\* a smaller or a larger resolution.
ResolutionInputs == {1, Resolution, 3}

ReconstructNext ==
    \/ \E voxel \in VoxelInputs : \E occupied \in BOOLEAN : AddVoxel(voxel, occupied)
    \/ \E points \in PointLists : \E viewpoint \in ViewpointInputs :
          \E max_range \in MaxRangeInputs : Insert(points, viewpoint, max_range)
    \/ \E resolution \in ResolutionInputs : ReconstructVoxels(VoxelSize, resolution)

SpecReconstruct == GridSpecInit /\ [][ReconstructNext]_vars

\* A grid of resolution 4 with voxel size 1 and origin 0 that receives rays.
\* The first viewpoint is the centre of voxel (0,2,2) and its points are the
\* centres of the voxels (3,2,2) and (2,2,2) on the same row; the second
\* viewpoint lies in voxel (2,2,2) and its point in voxel (3,3,2), at distance
\* 1.25.  max_range is 1 or 2 on the row and 0.625 on the other ray, so every
\* clamped point is exact.
RayResolution == 4

RayInputs ==
    {[viewpoint |-> <<-12, 4, 4>>, points |-> pts, max_range |-> r] :
        pts \in {<<<<12, 4, 4>>>>, <<<<4, 4, 4>>>>, <<<<4, 4, 4>>, <<12, 4, 4>>>>},
        r \in {-1, VoxelSize, 2 * VoxelSize}}
    \cup {[viewpoint |-> <<6, 5, 4>>, points |-> <<<<12, 13, 4>>>>, max_range |-> r] :
              r \in {-1, 5}}

RayQueryPoints == {<<-12, 4, 4>>, <<-4, 4, 4>>, <<4, 4, 4>>, <<12, 4, 4>>}

RayNext ==
    \/ \E ray \in RayInputs : Insert(ray.points, ray.viewpoint, ray.max_range)
    \/ \E point \in RayQueryPoints : IsOccupiedCall(point)
    \/ \E point \in RayQueryPoints : IsUnknownCall(point)

RayInit ==
    /\ GraphInit
    /\ is_directed_
    /\ SSSPIdle
    /\ GridInitAt([min |-> DefaultClampingThresMin, max |-> DefaultClampingThresMax,
                   hit |-> DefaultProbHitLog, miss |-> DefaultProbMissLog], RayResolution)

SpecRay == RayInit /\ [][RayNext]_vars

\* ------------------------------------------------------------ graph claims
EdgeMutators == {"AddEdge", "AddEdges", "RemoveEdge", "RemoveEdges"}

\* the last call ran ConstructGraph to its end and every access stayed in bounds
Rebuilt == call.err = "none" /\ ~ub /\ Len(lines_) > 0

OffsetsWellFormed ==
    /\ Len(edge_index_offsets_) = NumPoints + 1
    /\ \A i \in 1 .. NumPoints : edge_index_offsets_[i] <= edge_index_offsets_[i + 1]
    /\ edge_index_offsets_[1] = 0
    /\ edge_index_offsets_[NumPoints + 1] = Len(lines_)

\* C1: starting from an empty graph, after every AddEdge / AddEdges / RemoveEdge /
\* RemoveEdges call edge_index_offsets_ has length n + 1, is non-decreasing, and
\* has offsets[0] = 0 and offsets[n] = |lines_|.  Stated on the calls that
\* rebuilt the offsets without an error and without an out-of-bounds access.
C1_OffsetsAfterEveryCall ==
    (call.op \in EdgeMutators /\ Rebuilt) => OffsetsWellFormed

\* the positions (0-based) of the rows of lines_ whose source is v
RowsOfSource(v) == {i - 1 : i \in {j \in DOMAIN lines_ : lines_[j][1] = v}}

\* C2: after ConstructGraph on a non-empty edge list, for every vertex v the rows
\* of lines_ whose source is v are exactly the positions offsets[v] .. offsets[v+1]-1
\* (an empty range for a vertex without outgoing edges).
C2_RowsOfSourceAreOffsetRange ==
    (call.op \in EdgeMutators \cup {"ConstructGraph"} /\ Rebuilt) =>
        /\ Len(edge_index_offsets_) = NumPoints + 1
        /\ \A v \in Vertices :
              RowsOfSource(v) = edge_index_offsets_[v + 1] .. (edge_index_offsets_[v + 2] - 1)

\* how often the row l with weight w occurs in the aligned arrays lines, weights
RowWeightCount(lines, weights, l, w) ==
    Cardinality({i \in DOMAIN lines : lines[i] = l /\ weights[i] = w})

SameRowWeights(lines1, weights1, lines2, weights2) ==
    /\ Len(lines1) = Len(weights1)
    /\ Len(lines2) = Len(weights2)
    /\ Len(lines1) = Len(lines2)
    /\ \A i \in DOMAIN lines1 :
          RowWeightCount(lines1, weights1, lines1[i], weights1[i])
              = RowWeightCount(lines2, weights2, lines1[i], weights1[i])

WithReverses(s) == IF is_directed_ THEN s ELSE s \o s

EdgesWithReverses(es) ==
    IF is_directed_ THEN es ELSE es \o [i \in DOMAIN es |-> Reverse(es[i])]

\* the rows and weights the last call is to leave, in any order
ExpectedLines ==
    CASE call.op \in {"AddEdge", "AddEdges"} /\ call.err # "SizeMismatch" ->
            pre.lines \o EdgesWithReverses(call.edges)
      [] call.op \in {"RemoveEdge", "RemoveEdges"} ->
            LET removed == {k \in DOMAIN pre.lines :
                               \E i \in DOMAIN call.edges : CheckEdge(pre.lines[k], call.edges[i])}
            IN  Permute(pre.lines, KeepPositions(pre.lines, removed))
      [] OTHER -> pre.lines

ExpectedWeights ==
    CASE call.op \in {"AddEdge", "AddEdges"} /\ call.err # "SizeMismatch" ->
            pre.weights \o WithReverses(IF call.weights = <<>>
                                        THEN [i \in DOMAIN call.edges |-> 1]
                                        ELSE call.weights)
      [] call.op \in {"RemoveEdge", "RemoveEdges"} ->
            LET removed == {k \in DOMAIN pre.lines :
                               \E i \in DOMAIN call.edges : CheckEdge(pre.lines[k], call.edges[i])}
            IN  Permute(pre.weights, KeepPositions(pre.lines, removed))
      [] OTHER -> pre.weights

\* C6: after AddEdge, AddEdges, RemoveEdge, RemoveEdges and ConstructGraph return,
\* |edge_weights_| = |lines_|, every row that was there before and was not removed
\* carries the weight it had, and every added row (and its reverse if undirected)
\* carries the weight passed for it, or 1.0 when none was passed.  Stated on the
\* calls made on row-aligned arrays in which every access stayed in bounds.
C6_WeightsFollowRows ==
    (/\ call.op \in EdgeMutators \cup {"ConstructGraph"}
     /\ ~ub
     /\ Len(pre.weights) = Len(pre.lines)) =>
        SameRowWeights(lines_, edge_weights_, ExpectedLines, ExpectedWeights)

\* C7: in an undirected graph, after every AddEdge / AddEdges / RemoveEdge /
\* RemoveEdges call, for every row (a,b) of lines_ the row (b,a) is present with
\* the same weight.  Stated on the calls in which every access stayed in bounds.
C7_UndirectedRowsAreSymmetric ==
    (~is_directed_ /\ call.op \in EdgeMutators /\ ~ub) =>
        /\ Len(edge_weights_) = Len(lines_)
        /\ \A i \in DOMAIN lines_ : \E j \in DOMAIN lines_ :
              lines_[j] = Reverse(lines_[i]) /\ edge_weights_[j] = edge_weights_[i]

\* ------------------------------------------------------------- SSSP claims
\* the offsets describe the rows exactly: row range [off[v], off[v+1]) holds
\* the rows of source v, and every row has its weight
CompressedRowsExact ==
    /\ OffsetsWellFormed
    /\ Len(edge_weights_) = Len(lines_)
    /\ \A v \in Vertices :
          RowsOfSource(v) = edge_index_offsets_[v + 1] .. (edge_index_offsets_[v + 2] - 1)

\* Bellman-Ford on the rows and weights of the graph: the reference distances
\* from s after k rounds
RECURSIVE ReferenceRounds(_, _)
ReferenceRounds(s, k) ==
    IF k = 0 THEN [v \in Vertices |-> IF v = s THEN 0 ELSE Infinity]
    ELSE LET d    == ReferenceRounds(s, k - 1)
             into == [v \in Vertices |->
                         {Plus(d[lines_[i][1]], edge_weights_[i]) :
                             i \in {j \in DOMAIN lines_ : lines_[j][2] = v}}]
         IN  [v \in Vertices |->
                 IF \E x \in into[v] : x < d[v]
                 THEN CHOOSE x \in into[v] : \A y \in into[v] : x <= y
                 ELSE d[v]]

ReferenceDistance(s) == ReferenceRounds(s, NumPoints - 1)

\* C3: when DijkstraPaths(s) returns on a constructed graph, the
\* shortest_distance it reports for every vertex is the distance a reference
\* Dijkstra computes on the same rows and weights (infinity when unreachable).
C3_DistancesMatchReference ==
    (/\ pc = "done"
     /\ ~want_path
     /\ end_node_index = -1
     /\ call.err = "none"
     /\ ~ub
     /\ CompressedRowsExact) =>
        \A v \in Vertices :
            out[v + 1].shortest_distance_ = ReferenceDistance(start_node_index)[v]

\* the least weight among the rows (a, b)
RowWeight(a, b) ==
    LET ws == {edge_weights_[i] : i \in {j \in DOMAIN lines_ : lines_[j] = <<a, b>>}}
    IN  CHOOSE w \in ws : \A x \in ws : w <= x

RECURSIVE PathWeight(_)
PathWeight(p) ==
    IF Len(p) <= 1 THEN 0
    ELSE RowWeight(p[1], p[2]) + PathWeight(Tail(p))

\* p runs from s to t along rows of the graph
IsPath(p, s, t) ==
    /\ Len(p) >= 1
    /\ p[1] = s
    /\ p[Len(p)] = t
    /\ \A i \in 1 .. (Len(p) - 1) : \E j \in DOMAIN lines_ : lines_[j] = <<p[i], p[i + 1]>>

\* C8: when t is reachable from s, DijkstraPath(s, t) returns a vertex list
\* that starts at s, ends at t, follows edges of the graph, and whose weights
\* sum to the distance reported for t; s = t is included.
C8_PathIsShortestPath ==
    (/\ pc = "returned"
     /\ call.err = "none"
     /\ ~ub
     /\ CompressedRowsExact
     /\ ReferenceDistance(start_node_index)[end_node_index] < Infinity) =>
        /\ IsPath(path_nodes, start_node_index, end_node_index)
        /\ PathWeight(path_nodes) = out[end_node_index + 1].shortest_distance_

\* ------------------------------------------------------------- grid claims
\* C4: in every state reached by Insert, AddVoxel and AddVoxels calls on a
\* grid with clamping_thres_min_ <= clamping_thres_max_, the prob_log_ of every
\* voxel is NaN or lies in [clamping_thres_min_, clamping_thres_max_].
C4_ProbLogWithinClampingBounds ==
    clamping_thres_min_ <= clamping_thres_max_ =>
        \A c \in Cells :
            \/ voxels_[c].prob_log_ = NaN
            \/ /\ clamping_thres_min_ <= voxels_[c].prob_log_
               /\ voxels_[c].prob_log_ <= clamping_thres_max_

\* an Insert has raised a known voxel whose sum exceeds clamping_thres_max_,
\* and the voxel holds clamping_thres_max_
C4_InsertClampedAtMax ==
    /\ gcall.op = "Insert"
    /\ \E c \in Cells :
          /\ gpre[c].prob_log_ # NaN
          /\ gpre[c].prob_log_ + prob_hit_log_ > clamping_thres_max_
          /\ voxels_[c].prob_log_ = clamping_thres_max_

\* every coordinate of idx is inside [0, R)
InGrid(idx) == \A i \in 1 .. 3 : 0 <= idx[i] /\ idx[i] < resolution_

\* the candidates the last Insert handed to the log-odds update
UpdatedCandidates == Range(free_voxels_res) \cup Range(occupied_voxels)

\* C5: after an Insert, no candidate with a coordinate outside [0, R) has
\* written outside the dense array, and every cell the Insert changed is the
\* cell of a candidate whose coordinates are all inside [0, R).
C5_OutOfRangeCandidatesChangeNothing ==
    gcall.op = "Insert" =>
        /\ \A e \in UpdatedCandidates : InArray(IndexOf(e, resolution_))
        /\ \A c \in Cells :
              voxels_[c] # gpre[c] =>
                  \E e \in UpdatedCandidates : InGrid(e) /\ IndexOf(e, resolution_) = c

\* C9: after an Insert, a voxel of the grid that was both a free-space
\* candidate and the hit voxel of a point has received no prob_miss_log_
\* increment: no entry of the free list handed to AddVoxels lands on its cell.
C9_HitVoxelReceivesNoMiss ==
    gcall.op = "Insert" =>
        \A x \in Range(free_voxels) \cap Range(occupied_voxels) :
            InGrid(x) =>
                \A e \in Range(free_voxels_res) :
                    IndexOf(e, resolution_) # IndexOf(x, resolution_)

\* no two entries of the list address the same cell of the dense array
NoSharedCell(voxels) ==
    \A i \in DOMAIN voxels : \A j \in DOMAIN voxels :
        (i # j /\ InArray(IndexOf(voxels[i], resolution_))) =>
            IndexOf(voxels[i], resolution_) # IndexOf(voxels[j], resolution_)

\* C10: neither list an Insert hands to AddVoxels holds two entries that map
\* to the same linear index, so each call increments a cell at most once.
C10_OneIncrementPerCell ==
    gcall.op = "Insert" =>
        NoSharedCell(free_voxels_res) /\ NoSharedCell(occupied_voxels)

\* ------------------------------------------------ graph claims: mutators
\* the positions of the rows before the last call that match one of its edges
MatchedRows ==
    {k \in DOMAIN pre.lines : \E i \in DOMAIN call.edges : CheckEdge(pre.lines[k], call.edges[i])}

\* before the last call every row had its weight, and its colour if there were colours
PreAligned ==
    /\ Len(pre.weights) = Len(pre.lines)
    /\ Len(pre.colors) \in {0, Len(pre.lines)}

\* the rows, weights and colours before the last call without the matched rows
RowsLeft == Permute(pre.lines, KeepPositions(pre.lines, MatchedRows))

WeightsLeft == Permute(pre.weights, KeepPositions(pre.lines, MatchedRows))

ColorsLeft ==
    IF pre.colors = <<>> THEN <<>> ELSE Permute(pre.colors, KeepPositions(pre.lines, MatchedRows))

\* C11: RemoveEdge(e) deletes from lines_, edge_weights_ and colors_ together
\* exactly the rows whose edge is e (or its reverse if undirected); when no row
\* matches, lines_, weights, colours and offsets are as before the call and the
\* offsets are still well formed.  Stated on calls made on row-aligned arrays
\* in which every access stayed in bounds.
C11_RemoveEdgeDeletesMatchingRows ==
    (call.op = "RemoveEdge" /\ ~ub /\ PreAligned) =>
        /\ lines_ = RowsLeft
        /\ edge_weights_ = WeightsLeft
        /\ colors_ = ColorsLeft
        /\ MatchedRows = {} =>
              /\ Snapshot = pre
              /\ Len(lines_) > 0 => OffsetsWellFormed

\* C12: RemoveEdges(E) on a constructed graph leaves exactly the rows of lines_
\* whose edge is neither in E nor (if undirected) the reverse of an edge in E,
\* each with its own weight and colour: the rows RemoveEdge leaves when it is
\* called once for every edge of E.  Stated on calls made on row-aligned arrays.
C12_RemoveEdgesLeavesOtherRows ==
    (call.op = "RemoveEdges" /\ PreAligned /\ Len(pre.offsets) = NumPoints + 1) =>
        /\ lines_ = RowsLeft
        /\ edge_weights_ = WeightsLeft
        /\ colors_ = ColorsLeft

\* C13: ConstructGraph is idempotent: called on a graph it has constructed (the
\* offsets have n + 1 entries and the edge list is not empty), it leaves lines_,
\* edge_weights_, colors_ and edge_index_offsets_ as they were.  Stated on
\* calls in which every access stayed in bounds.
C13_ConstructGraphIdempotent ==
    (/\ call.op = "ConstructGraph"
     /\ ~ub
     /\ Len(pre.lines) > 0
     /\ Len(pre.offsets) = NumPoints + 1) => Snapshot = pre

\* C14: starting from an empty graph, after every call in any sequence of
\* AddEdge / AddEdges / RemoveEdge / RemoveEdges, lines_ is sorted in
\* lexicographic (src, dst) order.
C14_LinesSortedAfterEveryCall ==
    call.op \in EdgeMutators => IsSorted(lines_, "less")

\* an AddEdge has appended a row that sorts before the last row that was there
C14_AppendedRowWasMoved ==
    /\ call.op = "AddEdge"
    /\ ~ub
    /\ Len(pre.lines) > 0
    /\ RowLess(call.edges[1], pre.lines[Len(pre.lines)])
    /\ \E i \in DOMAIN lines_ : lines_[i] = call.edges[1] /\ i < Len(lines_)

\* C20: ConstructGraph called while lines_ is empty fails with the EmptyGraph
\* error and leaves lines_, edge_weights_, colors_ and edge_index_offsets_
\* exactly as they were before the call.
C20_EmptyGraphIsRejectedUnchanged ==
    (call.op = "ConstructGraph" /\ pre.lines = <<>>) =>
        call.err = "EmptyGraph" /\ Snapshot = pre

\* ConstructGraph was called on a graph that had been constructed and had then
\* lost all its edges, and logged the error
C20_CalledOnEmptiedGraph ==
    /\ call.op = "ConstructGraph"
    /\ call.err = "EmptyGraph"
    /\ pre.lines = <<>>
    /\ Len(pre.offsets) = NumPoints + 1

\* ------------------------------------------------ SSSP claims: the loop
\* C15 as stated: for a constructed graph with n vertices and non-negative
\* weights, the while loop of DijkstraPaths(start) runs at most n - 1
\* iterations before the open set is empty.
C15_AtMostNMinusOneIterations ==
    (/\ call.op = "DijkstraPaths"
     /\ call.err = "none"
     /\ end_node_index = -1
     /\ ~ub
     /\ CompressedRowsExact) => iter <= NumPoints - 1

\* C15 amended: for a constructed graph with n vertices and non-negative
\* weights, the while loop of DijkstraPaths(start) runs at most n iterations
\* before the open set is empty: the vertices opened by the last improving
\* round are closed by one more round that improves nothing.
C15_AtMostNIterations ==
    (/\ call.op = "DijkstraPaths"
     /\ call.err = "none"
     /\ end_node_index = -1
     /\ ~ub
     /\ CompressedRowsExact) => iter <= NumPoints

\* a run on exact compressed rows has returned after n iterations
C15_ReturnedAfterNIterations ==
    /\ pc = "done"
    /\ call.op = "DijkstraPaths"
    /\ call.err = "none"
    /\ end_node_index = -1
    /\ ~ub
    /\ CompressedRowsExact
    /\ iter = NumPoints

\* C17: on a constructed graph, DijkstraPath(s, t) returns the empty sequence
\* if and only if t is unreachable from s.  Stated on runs over exact
\* compressed rows in which every access stayed in bounds.
C17_EmptyPathIffUnreachable ==
    (/\ pc = "returned"
     /\ call.err = "none"
     /\ ~ub
     /\ CompressedRowsExact) =>
        (path_nodes = <<>> <=> ReferenceDistance(start_node_index)[end_node_index] = Infinity)

\* ------------------------------------------------- grid claims: queries
\* C16: for a point whose grid coordinate floor((p - origin)/voxel_size) + R/2
\* has a component outside [0, R), IsUnknown(p) returns true and IsOccupied(p)
\* returns false, whatever the grid holds.
C16_OutOfRangePointIsUnknown ==
    (/\ gcall.op \in {"IsOccupied", "IsUnknown"}
     /\ ~InGrid(VoxelOfPoint(gcall.points[1]))) =>
        gcall.answer = (gcall.op = "IsUnknown")

\* ------------------------------------------- grid claims: repeated inserts
\* the value an update adds to: 0 for a voxel that is still unknown
KnownOrZero(p) == IF p = NaN THEN 0 ELSE p

\* the last two calls were Insert with the same points, viewpoint and max_range
InsertedTwice == gcall.op = "Insert" /\ gcall2 = gcall

\* the hit voxels of the last Insert inside the grid
HitVoxels == {x \in Range(occupied_voxels) : InGrid(x)}

\* C18: inserting the same point cloud from the same viewpoint twice in a row
\* raises the prob_log_ of every hit voxel by exactly 2 * prob_hit_log_ over
\* its value before the first insertion (0 for an unknown voxel) as long as no
\* clamping occurs, and a hit voxel that had reached clamping_thres_max_ stays
\* at clamping_thres_max_.
C18_TwoInsertsAddTwoHits ==
    InsertedTwice =>
        \A x \in HitVoxels :
            LET c      == IndexOf(x, resolution_)
                before == KnownOrZero(gpre2[c].prob_log_)
            IN  /\ (/\ clamping_thres_min_ <= before + prob_hit_log_
                    /\ before + 2 * prob_hit_log_ <= clamping_thres_max_) =>
                       voxels_[c].prob_log_ = before + 2 * prob_hit_log_
                /\ gpre[c].prob_log_ = clamping_thres_max_ =>
                       voxels_[c].prob_log_ = clamping_thres_max_

\* ------------------------------------------------ grid claims: max_range
\* the point of the last Insert is within max_range of the viewpoint, or
\* max_range is negative
PointInRange(pt) ==
    gcall.max_range < 0 \/ Norm(Sub3(pt, gcall.viewpoint)) <= gcall.max_range

\* the prob_log_ of cell c is known and above what the cell held before the call
Raised(c) ==
    voxels_[c].prob_log_ # NaN /\ voxels_[c].prob_log_ > KnownOrZero(gpre[c].prob_log_)

\* C19: in Insert, a point farther than max_range > 0 from the viewpoint
\* contributes no occupied voxel: every occupied voxel is the enclosing voxel
\* of a point within range, and only cells addressed by an occupied voxel are
\* raised; a point within range (any point when max_range < 0) has its
\* enclosing voxel, when that lies in the grid, among the occupied voxels.
C19_OnlyPointsInRangeHit ==
    (gcall.op = "Insert" /\ gcall.points # <<>>) =>
        /\ \A x \in Range(occupied_voxels) :
              \E i \in DOMAIN gcall.points :
                  PointInRange(gcall.points[i]) /\ VoxelOfPoint(gcall.points[i]) = x
        /\ \A c \in Cells :
              Raised(c) => \E x \in Range(occupied_voxels) : IndexOf(x, resolution_) = c
        /\ \A i \in DOMAIN gcall.points :
              (PointInRange(gcall.points[i]) /\ InGrid(VoxelOfPoint(gcall.points[i]))) =>
                  VoxelOfPoint(gcall.points[i]) \in Range(occupied_voxels)

\* an Insert with max_range > 0 had a point beyond max_range and a point
\* within range whose voxel is in the grid and was raised
C19_FarPointAndNearPoint ==
    /\ gcall.op = "Insert"
    /\ gcall.max_range > 0
    /\ \E i \in DOMAIN gcall.points : ~PointInRange(gcall.points[i])
    /\ \E j \in DOMAIN gcall.points :
          /\ PointInRange(gcall.points[j])
          /\ InGrid(VoxelOfPoint(gcall.points[j]))
          /\ VoxelOfPoint(gcall.points[j]) \in Range(occupied_voxels)
          /\ Raised(IndexOf(VoxelOfPoint(gcall.points[j]), resolution_))

\* ------------------------------------------ graph claims: rejected calls
\* C21: AddEdges(E, W) with W non-empty and |W| # |E| fails with SizeMismatch
\* and leaves the graph unchanged: no row is appended to lines_, edge_weights_
\* or colors_ and the offsets are not rebuilt.
C21_SizeMismatchLeavesGraphUnchanged ==
    (/\ call.op = "AddEdges"
     /\ call.weights # <<>>
     /\ Len(call.weights) # Len(call.edges)) =>
        call.err = "SizeMismatch" /\ Snapshot = pre

\* AddEdges was called with two weights for one edge on a graph that has rows
C21_RejectedOnGraphWithRows ==
    /\ call.op = "AddEdges"
    /\ call.err = "SizeMismatch"
    /\ Len(call.weights) > Len(call.edges)
    /\ Len(lines_) > 0
    /\ Len(edge_index_offsets_) = NumPoints + 1

\* ------------------------------------------------ SSSP claims: rejected runs
\* C22: on a graph that is not constructed DijkstraPaths(start, end) fails with
\* NotConstructed without running the relaxation loop: the call leaves the graph
\* as it was, every vertex of the returned array (the start vertex included)
\* has distance +infinity and prev_index -1, and DijkstraPath returns the empty
\* sequence.
C22_NotConstructedReturnsDefaults ==
    /\ []((call.op = "DijkstraPaths" /\ call.err = "NotConstructed") =>
            /\ pc \in {"done", "returned"}
            /\ iter = 0
            /\ \A v \in 1 .. NumPoints :
                  /\ out[v].shortest_distance_ = Infinity
                  /\ out[v].prev_index_ = -1
            /\ path_nodes = <<>>)
    /\ [][(pc = "idle" /\ pc' # "idle" /\ ~IsConstructed) =>
            /\ call'.err = "NotConstructed"
            /\ pc' = "done"
            /\ Snapshot' = Snapshot]_vars

\* DijkstraPath has returned from a graph that was never constructed
C22_PathOnUnconstructedGraph ==
    /\ call.op = "DijkstraPaths"
    /\ call.err = "NotConstructed"
    /\ want_path
    /\ pc = "returned"
    /\ path_nodes = <<>>
    /\ Len(edge_index_offsets_) # NumPoints + 1

\* ------------------------------------------------ grid claims: reconstruction
\* C23: ReconstructVoxels(voxel_size, resolution) leaves a dense array of
\* resolution^3 voxels in which every voxel is unknown (prob_log NaN), whatever
\* the grid held before the call, also when the resolution is unchanged or
\* smaller than before.
C23_ReconstructLeavesAllUnknown ==
    gcall.op = "ReconstructVoxels" =>
        /\ DOMAIN voxels_ = 0 .. (gcall.resolution * gcall.resolution * gcall.resolution - 1)
        /\ \A c \in DOMAIN voxels_ : voxels_[c].prob_log_ = NaN

\* ------------------------------------------------- graph claims: edge colours
\* the colours before the last call, all white when there were none
ColorsBefore ==
    IF HasColors(pre.lines, pre.colors) THEN pre.colors
    ELSE [k \in DOMAIN pre.lines |-> 1]

\* C24: PaintEdgeColor(e, c) and PaintEdgesColor(E, c) first make colors_ an
\* all-white array of length |lines_| if the graph has no colours, then set c
\* on exactly the rows that equal an edge of the call (or its reverse in an
\* undirected graph); every other row keeps its colour and rows, weights and
\* offsets are untouched.  Stated for calls in which nothing undefined happened.
C24_PaintSetsExactlyMatchingRows ==
    (call.op \in {"PaintEdgeColor", "PaintEdgesColor"} /\ ~ub) =>
        /\ lines_ = pre.lines
        /\ edge_weights_ = pre.weights
        /\ edge_index_offsets_ = pre.offsets
        /\ Len(colors_) = Len(lines_)
        /\ \A k \in DOMAIN colors_ :
              colors_[k] = IF k \in MatchedRows THEN 2 ELSE ColorsBefore[k]

\* ------------------------------------------------- graph claims: node colours
\* the node colours before the last call, all white when there were none
NodeColorsBefore ==
    IF Len(pre.node_colors) = NumPoints THEN pre.node_colors
    ELSE [v \in 1 .. NumPoints |-> 1]

\* C25: PaintNodesColor(N, c) makes the node colours an all-white array if the
\* graph has none and assigns c to exactly the vertices listed in N, as a
\* PaintNodeColor(n, c) for every n in N would; every other vertex keeps its
\* colour.
C25_PaintNodesColorPaintsListed ==
    call.op = "PaintNodesColor" =>
        /\ Len(node_colors_) = NumPoints
        /\ \A v \in Vertices :
              node_colors_[v + 1] = IF v \in Range(call.nodes) THEN 2
                                    ELSE NodeColorsBefore[v + 1]

\* ------------------------------------- graph claims: colours of appended rows
\* the number of rows e that carry colour c
ColouredRows(lines, colors, e, c) ==
    Cardinality({k \in DOMAIN lines : lines[k] = e /\ colors[k] = c})

\* C26: if edge colours are present (|colors_| = |lines_|) before AddEdge or
\* AddEdges, then after the call |colors_| = |lines_| still holds, every row
\* the call added (reverses included) is white and every row that was there
\* keeps its colour.  Stated for calls in which nothing undefined happened.
C26_ColoursExtendedWithWhite ==
    (/\ call.op \in {"AddEdge", "AddEdges"}
     /\ call.err = "none"
     /\ ~ub
     /\ Len(pre.lines) > 0
     /\ Len(pre.colors) = Len(pre.lines)) =>
        /\ Len(colors_) = Len(lines_)
        /\ \A e \in Range(lines_) : \A c \in Range(colors_) \cup {1} :
              ColouredRows(lines_, colors_, e, c) =
                  ColouredRows(pre.lines, pre.colors, e, c)
                  + (IF c = 1
                     THEN Cardinality({i \in DOMAIN EdgesWithReverses(call.edges) :
                                          EdgesWithReverses(call.edges)[i] = e})
                     ELSE 0)

\* ---------------------------------------- graph claims: weights from distance
\* the squared Euclidean distance between the end points of a row
SquaredLength(edge) ==
    LET a == points_[edge[1]]
        b == points_[edge[2]]
    IN  (a[1] - b[1]) * (a[1] - b[1]) + (a[2] - b[2]) * (a[2] - b[2])
        + (a[3] - b[3]) * (a[3] - b[3])

\* C27: SetEdgeWeightsFromDistance sets edge_weights_ to length |lines_| with
\* row i holding the distance between the two end points of edge i and leaves
\* lines_ (and colours and offsets) unchanged; in an undirected constructed
\* graph the rows (a,b) and (b,a) get the same weight.
C27_WeightsAreEdgeLengths ==
    call.op = "SetEdgeWeightsFromDistance" =>
        /\ lines_ = pre.lines
        /\ colors_ = pre.colors
        /\ edge_index_offsets_ = pre.offsets
        /\ Len(edge_weights_) = Len(lines_)
        /\ \A i \in DOMAIN lines_ :
              /\ edge_weights_[i] >= 0
              /\ edge_weights_[i] * edge_weights_[i] = SquaredLength(lines_[i])
        /\ (~is_directed_ /\ IsConstructed) =>
              \A i \in DOMAIN lines_ : \A j \in DOMAIN lines_ :
                  lines_[i] = Reverse(lines_[j]) => edge_weights_[i] = edge_weights_[j]

\* the weights of an undirected constructed graph with two edges were replaced
\* by lengths that differ from the weights it had
C27_UndirectedWeightsReplaced ==
    /\ call.op = "SetEdgeWeightsFromDistance"
    /\ ~is_directed_
    /\ IsConstructed
    /\ Len(lines_) >= 4
    /\ Len(pre.weights) = Len(lines_)
    /\ \A i \in DOMAIN lines_ : edge_weights_[i] # pre.weights[i]
    /\ \E i \in DOMAIN lines_ : \E j \in DOMAIN lines_ : edge_weights_[i] # edge_weights_[j]

\* ------------------------------------------------------- grid claims: rays
\* the states of a voxel of the grid
KnownVoxel(x) == InGrid(x) /\ voxels_[IndexOf(x, resolution_)].prob_log_ # NaN

OccupiedVoxel(x) ==
    KnownVoxel(x) /\ voxels_[IndexOf(x, resolution_)].prob_log_ > occ_prob_thres_log_

FreeVoxel(x) ==
    KnownVoxel(x) /\ voxels_[IndexOf(x, resolution_)].prob_log_ <= occ_prob_thres_log_

UnknownVoxel(x) == InGrid(x) /\ voxels_[IndexOf(x, resolution_)].prob_log_ = NaN

\* the last call was Insert on a grid without observations
InsertOnFreshGrid ==
    gcall.op = "Insert" /\ \A c \in DOMAIN gpre : gpre[c].prob_log_ = NaN

\* the segment from p0 to p1 meets the interior of voxel x: no axis separates
\* the segment from the open box of the voxel (coordinates doubled)
PassesThrough(p0, p1, x) ==
    LET half    == resolution_ \div 2
        center2 == <<(2 * (x[1] - half) + 1) * voxel_size_ + 2 * origin_[1],
                     (2 * (x[2] - half) + 1) * voxel_size_ + 2 * origin_[2],
                     (2 * (x[3] - half) + 1) * voxel_size_ + 2 * origin_[3]>>
        m       == Sub3(Add3(p0, p1), center2)
        d       == Sub3(p1, p0)
        side    == voxel_size_
    IN  /\ \A i \in 1 .. 3 : Abs(m[i]) < side + Abs(d[i])
        /\ \/ d[2] = 0 /\ d[3] = 0
           \/ Abs(m[2] * d[3] - m[3] * d[2]) < side * Abs(d[3]) + side * Abs(d[2])
        /\ \/ d[3] = 0 /\ d[1] = 0
           \/ Abs(m[3] * d[1] - m[1] * d[3]) < side * Abs(d[3]) + side * Abs(d[1])
        /\ \/ d[1] = 0 /\ d[2] = 0
           \/ Abs(m[1] * d[2] - m[2] * d[1]) < side * Abs(d[2]) + side * Abs(d[1])

GridVoxels == (0 .. (resolution_ - 1)) \X (0 .. (resolution_ - 1)) \X (0 .. (resolution_ - 1))

\* the scenario: Insert([(1.5,0.5,0.5)], viewpoint (-1.5,0.5,0.5)) without
\* max_range on the fresh grid of resolution 4 leaves (3,2,2) occupied and
\* (0,2,2), (1,2,2), (2,2,2) free
C28_RowOfFourVoxels ==
    (/\ InsertOnFreshGrid
     /\ resolution_ = RayResolution
     /\ gcall.points = <<<<12, 4, 4>>>>
     /\ gcall.viewpoint = <<-12, 4, 4>>
     /\ gcall.max_range < 0) =>
        /\ OccupiedVoxel(<<3, 2, 2>>)
        /\ FreeVoxel(<<0, 2, 2>>)
        /\ FreeVoxel(<<1, 2, 2>>)
        /\ FreeVoxel(<<2, 2, 2>>)

\* C28: on a fresh grid of resolution 4, voxel size 1 and origin 0,
\* Insert([(1.5,0.5,0.5)], viewpoint (-1.5,0.5,0.5)) without max_range leaves
\* voxel (3,2,2) occupied and the voxels (0,2,2), (1,2,2), (2,2,2) free; and
\* for every ray that lies in the grid the voxel of the point ends up occupied
\* and every other voxel the segment passes through ends up free.
C28_HitOccupiedTraversedFree ==
    /\ C28_RowOfFourVoxels
    /\ (/\ InsertOnFreshGrid
        /\ Len(gcall.points) = 1
        /\ gcall.max_range < 0
        /\ InGrid(VoxelOfPoint(gcall.viewpoint))
        /\ InGrid(VoxelOfPoint(gcall.points[1]))) =>
           /\ OccupiedVoxel(VoxelOfPoint(gcall.points[1]))
           /\ \A x \in GridVoxels :
                 (/\ x # VoxelOfPoint(gcall.points[1])
                  /\ PassesThrough(gcall.viewpoint, gcall.points[1], x)) => FreeVoxel(x)

\* the scenario with max_range = 1: Insert([(1.5,0.5,0.5)], viewpoint
\* (-1.5,0.5,0.5), max_range 1.0) on the fresh grid of resolution 4
ClampedRowScenario ==
    /\ InsertOnFreshGrid
    /\ resolution_ = RayResolution
    /\ gcall.points = <<<<12, 4, 4>>>>
    /\ gcall.viewpoint = <<-12, 4, 4>>
    /\ gcall.max_range = VoxelSize

\* C29: in that scenario the point is clamped to (-0.5,0.5,0.5); the final
\* voxel of the ray is then (1,2,2) and it is marked occupied, and the voxels
\* farther along the ray, (2,2,2) and (3,2,2), remain unknown.
C29_ClampedEndVoxelOccupied ==
    ClampedRowScenario =>
        /\ RangePoint(gcall.points[1], gcall.viewpoint, gcall.max_range).point = <<-4, 4, 4>>
        /\ OccupiedVoxel(<<1, 2, 2>>)
        /\ UnknownVoxel(<<2, 2, 2>>)
        /\ UnknownVoxel(<<3, 2, 2>>)

\* C29 as the code has it: the point is clamped to (-0.5,0.5,0.5) and is not a
\* hit, so the final voxel (1,2,2) and the voxel (0,2,2) before it are marked
\* free, no voxel of the grid is occupied, and (2,2,2) and (3,2,2) remain
\* unknown.
C29_ClampedEndVoxelFree ==
    ClampedRowScenario =>
        /\ RangePoint(gcall.points[1], gcall.viewpoint, gcall.max_range).point = <<-4, 4, 4>>
        /\ ~RangePoint(gcall.points[1], gcall.viewpoint, gcall.max_range).hit
        /\ FreeVoxel(<<0, 2, 2>>)
        /\ FreeVoxel(<<1, 2, 2>>)
        /\ UnknownVoxel(<<2, 2, 2>>)
        /\ UnknownVoxel(<<3, 2, 2>>)
        /\ \A x \in GridVoxels : ~OccupiedVoxel(x)

\* the clamped insert has run on the fresh grid and left two known voxels
C29_ClampedInsertDone ==
    /\ ClampedRowScenario
    /\ occupied_voxels = <<>>
    /\ free_voxels_res = <<<<0, 2, 2>>, <<1, 2, 2>>>>
    /\ Cardinality({x \in GridVoxels : KnownVoxel(x)}) = 2

\* ------------------------------------------------ SSSP claims: targeted runs
\* DijkstraPaths(start) has returned after DijkstraPaths(start, end) on a graph
\* whose offsets describe its rows exactly
BothRunsReturned ==
    /\ pc = "done"
    /\ first_run # NoRun
    /\ call.op = "DijkstraPaths"
    /\ call.err = "none"
    /\ ~ub
    /\ CompressedRowsExact

\* C30: in targeted mode the early exit does not lose the answer: on a
\* constructed graph with non-negative weights DijkstraPaths(start, end)
\* returns for vertex end the same shortest_distance as DijkstraPaths(start).
C30_TargetedKeepsDistanceOfEnd ==
    BothRunsReturned =>
        first_run.out[first_run.end + 1].shortest_distance_
            = out[first_run.end + 1].shortest_distance_

\* the targeted run stopped with a vertex still open and the end reached, and
\* the untargeted run went on to change the distance of another vertex
C30_EarlyExitTaken ==
    /\ BothRunsReturned
    /\ first_run.out[first_run.end + 1].shortest_distance_ # Infinity
    /\ first_run.end # start_node_index
    /\ \E v \in 1 .. NumPoints :
          first_run.out[v].shortest_distance_ # out[v].shortest_distance_

\* ------------------------------------------ SSSP claims: order inside a phase
\* the rows relax_functor walks for the element at position i of indices
ElementRows(i) ==
    edge_index_offsets_[indices[i] + 1] .. (edge_index_offsets_[indices[i] + 2] - 1)

\* the locations relax_functor may write for the element at position i
RelaxWrites(i) ==
    {<<"open_flags", indices[i]>>} \cup {<<"res_tmp", EdgeSlot(j)>> : j \in ElementRows(i)}

\* the locations relax_functor may read for the element at position i among
\* those a for_each writes
RelaxReads(i) ==
    {<<"open_flags", indices[i]>>} \cup {<<"out", lines_[j + 1][1]>> : j \in ElementRows(i)}

\* the locations update_shortest_distances_functor may write for position i
CommitWrites(i) == {<<"out", indices[i]>>, <<"open_flags", indices[i]>>}

\* the locations update_shortest_distances_functor reads for position i
CommitReads(i) == {<<"out", indices[i]>>, <<"res_tmp_s", indices[i]>>}

\* an element-wise run on a graph whose offsets describe its rows exactly
ElementWiseRun ==
    /\ DOMAIN phase.expected # {}
    /\ ~ub
    /\ CompressedRowsExact

\* C31: within each SSSP phase no element reads or writes a location that
\* another element of the same phase writes, and the arrays after each phase
\* are those of the phase taken as one step, whatever the order in which its
\* elements were processed.
C31_PhasesAreOrderIndependent ==
    ElementWiseRun =>
        /\ pc = "relax" =>
              \A i \in 1 .. nt : \A i2 \in (1 .. nt) \ {i} :
                  RelaxWrites(i) \cap (RelaxReads(i2) \cup RelaxWrites(i2)) = {}
        /\ pc = "commit" =>
              /\ \A i \in 1 .. nt : \A i2 \in (1 .. nt) \ {i} :
                    CommitWrites(i) \cap (CommitReads(i2) \cup CommitWrites(i2)) = {}
              /\ res_tmp = phase.expected.res_tmp
              /\ indices = phase.expected.indices
              /\ res_tmp_s = phase.expected.res_tmp_s
              /\ nt = phase.expected.nt
        /\ pc \in {"loop", "done"} =>
              /\ out = phase.expected.out
              /\ open_flags = phase.expected.open_flags
              /\ res_tmp = phase.expected.res_tmp
              /\ res_tmp_s = phase.expected.res_tmp_s
              /\ indices = phase.expected.indices
              /\ nt = phase.expected.nt

\* an iteration has finished in which two open vertices were relaxed and two
\* vertices were committed, one of them improved
C31_TwoElementsInBothPhases ==
    /\ ElementWiseRun
    /\ pc = "loop"
    /\ iter >= 2
    /\ nt >= 2
    /\ Cardinality({v \in 1 .. NumPoints : open_flags[v] = 1}) >= 1
    /\ Cardinality({s \in DOMAIN res_tmp : res_tmp[s] # DefaultResult}) >= 3

\* ------------------------------------------------ grid claims: the 7-voxel sweep
\* the ranged points and n_div of the last Insert
LastRanged ==
    [i \in DOMAIN gcall.points |->
        RangePoint(gcall.points[i], gcall.viewpoint, gcall.max_range)]

LastNDiv == NDiv(MaxOf([i \in DOMAIN gcall.points |-> LastRanged[i].dist]))

\* the last call was an Insert that computed free voxels
SweepDone == gcall.op = "Insert" /\ gcall.points # <<>> /\ LastNDiv > 0

\* the index of the neighbour voxel of sample sidx at offset vidx
NeighbourIndex(point, sidx, vidx) ==
    LET half == resolution_ \div 2
    IN  Add3(Add3(SampleVoxel(point, gcall.viewpoint, LastNDiv, sidx), voxel_offset[vidx]),
             <<half, half, half>>)

\* the voxels the samples of the ray to `point` fall in
SampledVoxels(point) == {NeighbourIndex(point, sidx, 1) : sidx \in 0 .. LastNDiv}

\* C32: in the free-voxel computation, for each point, each sample step and
\* each of the 7 neighbour offsets, a passing segment/AABB test yields the 3D
\* index of the neighbour voxel (sample voxel plus offset, shifted by R/2)
\* and a failing test yields the sentinel; so a face neighbour inside the grid
\* that the ray clips and no sample falls in is in the free-voxel set.
C32_SweepYieldsNeighbourIndex ==
    SweepDone =>
        \A p \in DOMAIN gcall.points :
            /\ \A sidx \in 0 .. LastNDiv : \A vidx \in 1 .. 7 :
                  IntersectVoxelSegment(LastRanged[p].point, gcall.viewpoint, LastNDiv,
                                        sidx, vidx)
                     = IF IsIntersect(LastRanged[p].point, gcall.viewpoint, LastNDiv,
                                      sidx, vidx)
                       THEN NeighbourIndex(LastRanged[p].point, sidx, vidx)
                       ELSE Invalid3
            /\ \A sidx \in 0 .. LastNDiv : \A vidx \in 2 .. 7 :
                  LET x == NeighbourIndex(LastRanged[p].point, sidx, vidx)
                  IN  (/\ InGrid(x)
                       /\ x \notin SampledVoxels(LastRanged[p].point)
                       /\ PassesThrough(gcall.viewpoint, LastRanged[p].point, x)) =>
                          x \in Range(free_voxels)

\* --------------------------------------------- grid claims: the degenerate Insert
\* the last call was an Insert whose points all coincide with the viewpoint
DegenerateInsert ==
    /\ gcall.op = "Insert"
    /\ gcall.points # <<>>
    /\ \A p \in DOMAIN gcall.points : gcall.points[p] = gcall.viewpoint

\* C33: when n_div == 0 in Insert (every input point coincides with the
\* viewpoint) the free-space computation is skipped, no voxel receives
\* prob_miss_log, and the enclosing voxel of each input point, if inside the
\* grid, receives exactly one prob_hit_log increment.
C33_DegenerateInsertMarksHitsOnly ==
    DegenerateInsert =>
        /\ LastNDiv = 0
        /\ free_voxels = <<>>
        /\ free_voxels_res = <<>>
        /\ \A c \in DOMAIN voxels_ :
              voxels_[c].prob_log_ # gpre[c].prob_log_ =>
                  voxels_[c].prob_log_ = AddOccupancy(gpre[c].prob_log_, TRUE)
        /\ \A p \in DOMAIN gcall.points :
              LET x == VoxelOfPoint(gcall.points[p])
              IN  InGrid(x) =>
                      voxels_[IndexOf(x, resolution_)].prob_log_
                          = AddOccupancy(gpre[IndexOf(x, resolution_)].prob_log_, TRUE)

\* a degenerate Insert has raised the value of a voxel that was already known
C33_DegenerateInsertOnKnownVoxel ==
    /\ DegenerateInsert
    /\ InGrid(VoxelOfPoint(gcall.viewpoint))
    /\ gpre[IndexOf(VoxelOfPoint(gcall.viewpoint), resolution_)].prob_log_ # NaN
    /\ voxels_[IndexOf(VoxelOfPoint(gcall.viewpoint), resolution_)].prob_log_
          > gpre[IndexOf(VoxelOfPoint(gcall.viewpoint), resolution_)].prob_log_

\* ------------------------------------------------ graph claims: repeated edges
\* how often the row e occurs in lines
RowCount(lines, e) == Cardinality({i \in DOMAIN lines : lines[i] = e})

\* the rows the last call appended before it ran ConstructGraph
AppendedRows ==
    IF call.op \in {"AddEdge", "AddEdges"}
    THEN IF is_directed_ THEN call.edges
         ELSE call.edges \o [i \in DOMAIN call.edges |-> Reverse(call.edges[i])]
    ELSE <<>>

\* the last call appended rows or not, and ran ConstructGraph to its end
AppendedAndConstructed ==
    call.op \in {"ConstructGraph", "AddEdge", "AddEdges"} /\ call.err = "none"

LoopRunning == pc = "loop" /\ ~ub /\ CompressedRowsExact

\* the vertices that are open after a step and were closed, or processed,
\* before it
ReopenedBy(flags_before, visited, flags_after) ==
    {v \in Vertices : flags_after[v + 1] = 1 /\ (flags_before[v + 1] = 0 \/ v \in visited)}

\* C35: for every constructed graph with non-negative weights (zero-weight
\* edges and cycles included) and every start vertex, the wavefront loop of
\* DijkstraPaths terminates: it reaches a state with no open vertex or takes
\* the targeted early exit, because a vertex is re-opened only when its
\* distance strictly decreases.
C35_LoopTerminates ==
    /\ LoopRunning ~>
          (/\ pc = "done"
           /\ call.err = "none"
           /\ \/ \A v \in 1 .. NumPoints : open_flags[v] # 1
              \/ end_node_index >= 0 /\ \A idx \in Visited : ~ComparePathLength(idx))
    /\ [][(LoopRunning /\ pc' = "loop") =>
             \A v \in ReopenedBy(open_flags, Visited, open_flags') :
                 out'[v + 1].shortest_distance_ < out[v + 1].shortest_distance_]_vars

\* a run on a graph with a cycle of zero-weight rows that reaches both
\* vertices of the cycle has returned after three passes or more
C35_ZeroCycleRunReturned ==
    /\ pc = "done"
    /\ ~ub
    /\ CompressedRowsExact
    /\ iter >= 3
    /\ \E i \in DOMAIN lines_ : \E j \in DOMAIN lines_ :
          /\ lines_[j] = Reverse(lines_[i])
          /\ edge_weights_[i] = 0
          /\ edge_weights_[j] = 0
          /\ out[lines_[i][1] + 1].shortest_distance_ # Infinity

\* ----------------------------------------- SSSP claims: iteration boundaries
\* the run stands at the head of its while loop or has returned, on a graph
\* whose offsets describe its rows exactly
AtIterationBoundary ==
    /\ pc \in {"loop", "done"}
    /\ call.op = "DijkstraPaths"
    /\ call.err = "none"
    /\ ~ub
    /\ CompressedRowsExact

\* vertex v holds a distance that a row (u, v) from its stored predecessor u
\* accounts for
PredecessorAccounts(v) ==
    LET u == out[v + 1].prev_index_
    IN  /\ u \in Vertices
        /\ \E i \in DOMAIN lines_ :
              /\ lines_[i] = <<u, v>>
              /\ out[v + 1].shortest_distance_
                    >= Plus(out[u + 1].shortest_distance_, edge_weights_[i])

\* C36: at every iteration boundary of DijkstraPaths on a constructed graph
\* with non-negative weights the start vertex holds (0, start), no vertex's
\* shortest_distance has increased since the previous iteration, and every
\* other vertex v with a finite shortest_distance has a prev_index u such that
\* (u, v) is an edge and shortest_distance[v] >= shortest_distance[u] +
\* weight(u, v).
C36_BoundaryInvariant ==
    /\ [](AtIterationBoundary =>
            /\ out[start_node_index + 1] = SSSPResult(0, start_node_index)
            /\ \A v \in Vertices \ {start_node_index} :
                  out[v + 1].shortest_distance_ # Infinity => PredecessorAccounts(v))
    /\ [][(AtIterationBoundary /\ pc = "loop" /\ pc' \in {"loop", "done"}) =>
             \A v \in 1 .. NumPoints :
                 out'[v].shortest_distance_ <= out[v].shortest_distance_]_vars

\* ------------------------------------------- grid claims: the stored indices
\* C37: in every state reachable by Insert / AddVoxel / AddVoxels, every known
\* voxel stored at linear position L of the dense array has a grid_index
\* inside [0, R)^3 with IndexOf(grid_index, R) = L.
C37_StoredIndexNamesItsCell ==
    \A c \in Cells :
        voxels_[c].prob_log_ # NaN =>
            /\ InGrid(voxels_[c].grid_index_)
            /\ IndexOf(voxels_[c].grid_index_, resolution_) = c

\* ------------------------------------------ grid claims: what a call changes
\* the voxels on the lists the last call updated
UpdatedVoxels ==
    IF gcall.op = "Insert" THEN Range(free_voxels_res) \cup Range(occupied_voxels)
    ELSE Range(gcall.voxels)

\* C38: across any sequence of Insert, AddVoxel and AddVoxels calls a voxel
\* that has become known never becomes unknown again, and a call changes the
\* prob_log only of voxels whose index is on the list it updates: every other
\* voxel keeps its prob_log.
C38_KnownStaysKnownOthersKept ==
    gcall.op \in {"Insert", "AddVoxel", "AddVoxels"} =>
        \A x \in GridVoxels :
            /\ gpre[IndexOf(x, resolution_)].prob_log_ # NaN =>
                  voxels_[IndexOf(x, resolution_)].prob_log_ # NaN
            /\ voxels_[IndexOf(x, resolution_)].prob_log_
                  # gpre[IndexOf(x, resolution_)].prob_log_ => x \in UpdatedVoxels
====
